---- MODULE Spec2Model ----
(***************************************************************************)
(* PKCS11Session (src/src/python_x509_pkcs11/pkcs11_handle.py): the lock,  *)
(* the health probe with its threads, and the device operations, as a      *)
(* state machine.  The PKCS#11 device is the environment: every device     *)
(* call may succeed, raise a device error, or not return (a thread that    *)
(* never takes its next step).  Callers interleave at the awaits of an     *)
(* operation (lock.acquire in the pool, sleep(0) in healthy_session); what *)
(* an operation does after healthy_session has no await and is one step.   *)
(* Probe threads are threads of the operating system and step at any time. *)
(***************************************************************************)
EXTENDS Integers, Sequences, FiniteSets, TLC

\* ---------------------------------------------------------------- bounds
NumTasks == 2          \* concurrent callers
MaxThreads == 3        \* probe threads alive, or reserved by a call in its health check
MaxSessions == 1       \* session handles opened after the first
MaxLocks == 1          \* PKCS11Session() calls after the first construction
MaxSentinel == 2       \* sentinel keys the device is let to hold
MaxKeys == 4           \* key objects the device is let to hold
MaxMat == 2            \* distinct key materials
MaxData == 2           \* distinct messages
MaxNonce == 2          \* distinct ECDSA nonces
MaxResponses == 1      \* single responses handed to response where the status code varies
MaxExtensions == 2     \* extensions handed to response
MaxSingleResponses == 2  \* single responses handed to response with status code 0
MaxTriples == 2        \* certificates asked about in one OCSP request, and distinct ones
MaxOccurs == 2         \* times an extension occurs in a certificate

\* -------------------------------------------------------------- constants
TIMEOUT == 10

Tasks == 1..NumTasks
Mats == 1..MaxMat
Datas == 1..MaxData
Labels == {"L"}

\* Records are written with their fields in one order throughout, that in
\* which the field names first occur in this module.

KEYTYPES ==
  {"rsa_2048", "rsa_4096", "ed25519", "ed448", "secp256r1", "secp384r1", "secp521r1"}
RSATypes == {"rsa_2048", "rsa_4096"}
EdTypes == {"ed25519", "ed448"}
ECTypes == {"secp256r1", "secp384r1", "secp521r1"}

\* The device key type under which a logical key type is stored and looked up.
KEY_TYPE_VALUES(kt) ==
  IF kt \in RSATypes THEN "RSA"
  ELSE IF kt \in EdTypes THEN "EC_EDWARDS"
  ELSE "EC"

Classes == {"PUBLIC_KEY", "PRIVATE_KEY"}
KeyObjs == [kt : KEYTYPES, cls : Classes, label : Labels, mat : Mats]
KeyObj(c, kt, l, m) == [kt |-> kt, cls |-> c, label |-> l, mat |-> m]

VARIABLES
  base_url,                  \* self.base_url: "None" or the URL of the remote endpoint
  support_recreate_session,  \* self.support_recreate_session
  lock,                      \* self.lock: the lock object operations take now
  held,                      \* per lock object: 0 (free) or the task that acquired it
  session,                   \* self.session: 0 (never opened) or a session handle
  session_status,            \* self._session_status: 0 healthy, 9 not
  sentinel,                  \* number of "test_pkcs11_device_do_not_use" keys on the device
  keys,                      \* key objects on the device: a bag over KeyObjs
  certs,                     \* certificate objects on the device: per label, a sequence of values
  task,                      \* per caller: where it is in its operation
  thr                        \* per probe thread: where it is in _open_session

vars == <<base_url, support_recreate_session, lock, held, session, session_status,
          sentinel, keys, certs, task, thr>>

\* ------------------------------------------------------------- the device
RECURSIVE Total(_, _)
Total(k, S) ==
  IF S = {} THEN 0
  ELSE LET o == CHOOSE x \in S : TRUE IN k[o] + Total(k, S \ {o})

NumKeys(k) == Total(k, KeyObjs)

Matching(k, devtype, cls, label) ==
  {o \in KeyObjs : o.cls = cls /\ KEY_TYPE_VALUES(o.kt) = devtype
                   /\ o.label = label /\ k[o] > 0}

\* session.get_key(key_type, object_class, label) on a responsive device
get_key(k, devtype, cls, label) ==
  LET M == Matching(k, devtype, cls, label)
      n == Total(k, M)
  IN IF n = 0 THEN [err |-> "NoSuchKey"]
     ELSE IF n > 1 THEN [err |-> "MultipleObjectsReturned"]
     ELSE [err |-> "", obj |-> CHOOSE o \in M : TRUE]

AddKey(k, o) == [k EXCEPT ![o] = @ + 1]
DelKey(k, o) == [k EXCEPT ![o] = @ - 1]

NoKeys == [o \in KeyObjs |-> 0]
NoCerts == [l \in Labels |-> <<>>]

\* ------------------------------------------------------------------ tasks
NoOp == [name |-> "none"]
NoRes == [kind |-> "none"]
Err(e) == [err |-> e, kind |-> "error"]
Ok(v) == [kind |-> "ok", val |-> v]

NoResp == [status |-> 0, body |-> "none"]
IdleTask ==
  [pc |-> "idle", op |-> NoOp, lk |-> 0, th1 |-> "none", th2 |-> "none", waited |-> 0,
   resp |-> NoResp, res |-> NoRes]

\* The state after PKCS11Session.__init__ with this base URL: the session is
\* open unless the device refused (GeneralError, logged and swallowed) or the
\* URL came from the environment (line 114); the sentinel key exists unless
\* its bootstrap failed.
Constructed(url) ==
  /\ base_url = url
  /\ support_recreate_session \in BOOLEAN
  /\ lock = 0
  /\ held = [l \in 0..MaxLocks |-> 0]
  /\ session \in {0, 1}
  /\ session_status = 9
  /\ sentinel \in (IF session = 0 THEN {0} ELSE {0, 1})
  /\ keys = NoKeys
  /\ certs = NoCerts
  /\ task = [t \in Tasks |-> IdleTask]
  /\ thr = [k \in {"start", "open", "probe", "gen"} \X BOOLEAN |-> 0]

\* no remote endpoint is configured
Init == Constructed("None")

\* ------------------------------------------------- async_lock, lines 66-76
\* lock.acquire returns only when the lock object is free
LockFree(l) == held[l] = 0

\* An operation is called on the local path (no base URL; get_session has no
\* other path, lines 260-266): async_lock(self.lock) takes the
\* lock object that self.lock names now and hands lock.acquire to the pool.
Call(t, op) ==
  /\ task[t].pc = "idle"
  /\ base_url = "None" \/ op.name = "get_session"
  /\ task' = [task EXCEPT ![t] = [IdleTask EXCEPT !.pc = "wait", !.op = op, !.lk = lock]]
  /\ UNCHANGED <<base_url, support_recreate_session, lock, held, session, session_status,
                 sentinel, keys, certs, thr>>

\* lock.acquire succeeds in the pool thread; the coroutine is resumed later
Acquire(t) ==
  /\ task[t].pc = "wait"
  /\ LockFree(task[t].lk)
  /\ held' = [held EXCEPT ![task[t].lk] = t]
  /\ task' = [task EXCEPT ![t].pc = "locked"]
  /\ UNCHANGED <<base_url, support_recreate_session, lock, session, session_status,
                 sentinel, keys, certs, thr>>

\* The task of caller t is cancelled while it awaits run_in_executor (line
\* 71): CancelledError is raised at the await, before the try of line 73.
\* The work item is cancelled with it only if no pool thread has taken it up;
\* a pool thread inside lock.acquire cannot be cancelled and goes on.
Cancel(t) ==
  /\ task[t].pc = "wait"
  /\ \/ task' = [task EXCEPT ![t] = [IdleTask EXCEPT !.op = task[t].op, !.res = Err("CancelledError")]]
     \/ task' = [task EXCEPT ![t] = [@ EXCEPT !.pc = "cancelled", !.res = Err("CancelledError")]]
  /\ UNCHANGED <<base_url, support_recreate_session, lock, held, session, session_status,
                 sentinel, keys, certs, thr>>

\* lock.acquire returns in the pool thread of a cancelled caller: the lock is
\* taken and the coroutine that would run the finally of line 75 is gone
LateAcquire(t) ==
  /\ task[t].pc = "cancelled"
  /\ LockFree(task[t].lk)
  /\ held' = [held EXCEPT ![task[t].lk] = t]
  /\ task' = [task EXCEPT ![t].pc = "gone"]
  /\ UNCHANGED <<base_url, support_recreate_session, lock, session, session_status,
                 sentinel, keys, certs, thr>>

\* a finally that leaves the lock as it is
Release_Kept(t) == held

\* finally: lock.release()
Release(t) == [held EXCEPT ![task[t].lk] = 0]

\* --------------------------------------- _open_session, lines 194-238
\* A probe thread is at one of: "start" (before line 205), "open" (before the
\* forced reopen of lines 210-216), "probe" (before get_key, line 220), "gen"
\* (before generate_keypair, line 229); it ends "ok" (it wrote status 0) or
\* "fail".  A device call that does not return is a thread that stays.
Running == {"start", "open", "probe", "gen"}
IsAlive(p) == p \in Running

\* One step of _open_session from p to q, for a thread started with force.
ThrMove(p, force, q) ==
  \/ /\ p = "start"                       \* line 205, then the test of line 208
     /\ session_status' = 9
     /\ q = (IF force THEN "open" ELSE IF session = 0 THEN "fail" ELSE "probe")
     /\ UNCHANGED <<session, sentinel>>
  \/ /\ p = "open"                        \* lines 210-217: a new session
     /\ session < 1 + MaxSessions
     /\ session' = session + 1
     /\ q = "probe"
     /\ UNCHANGED <<session_status, sentinel>>
  \/ /\ p = "open"                        \* GeneralError, caught at line 236
     /\ q = "fail"
     /\ UNCHANGED <<session, session_status, sentinel>>
  \/ /\ p = "probe"                       \* lines 220-225: the sentinel is there
     /\ sentinel = 1
     /\ session_status' = 0
     /\ q = "ok"
     /\ UNCHANGED <<session, sentinel>>
  \/ /\ p = "probe"                       \* line 227: NoSuchKey
     /\ sentinel = 0
     /\ q = "gen"
     /\ UNCHANGED <<session, session_status, sentinel>>
  \/ /\ p = "probe"                       \* GeneralError, or two sentinels found
     /\ q = "fail"
     /\ UNCHANGED <<session, session_status, sentinel>>
  \/ /\ p = "gen"                         \* lines 229-232: the sentinel is created
     /\ sentinel < MaxSentinel
     /\ sentinel' = sentinel + 1
     /\ session_status' = 0
     /\ q = "ok"
     /\ UNCHANGED session
  \/ /\ p = "gen"                         \* lines 233-234: GeneralError passed over
     /\ q = "fail"
     /\ UNCHANGED <<session, session_status, sentinel>>

\* threads alive: those of calls in progress and those left behind
StaleKinds == Running \X BOOLEAN
RECURSIVE BagTotal(_, _)
BagTotal(b, S) ==
  IF S = {} THEN 0
  ELSE LET x == CHOOSE y \in S : TRUE IN b[x] + BagTotal(b, S \ {x})
\* Threads alive or still to be started by the calls in progress: a call in its
\* health check starts at most two (lines 245 and 251).
InHealth(t) == task[t].pc \in {"join1", "join2"}
Live == BagTotal(thr, StaleKinds) + 2 * Cardinality({t \in Tasks : InHealth(t)})

\* a thread of the call of task t, the first (i = 1) or the forced one (i = 2)
OwnStep(t, i) ==
  /\ \E q \in Running \cup {"ok", "fail"} :
       /\ ThrMove(IF i = 1 THEN task[t].th1 ELSE task[t].th2, i = 2, q)
       /\ task' = [task EXCEPT ![t] = IF i = 1 THEN [@ EXCEPT !.th1 = q] ELSE [@ EXCEPT !.th2 = q]]
  /\ UNCHANGED <<base_url, support_recreate_session, lock, held, keys, certs, thr>>

\* a thread whose call has ended
StaleStep(p, force) ==
  /\ thr[<<p, force>>] > 0
  /\ \E q \in Running \cup {"ok", "fail"} :
       /\ ThrMove(p, force, q)
       /\ thr' = IF IsAlive(q)
                 THEN [thr EXCEPT ![<<p, force>>] = @ - 1, ![<<q, force>>] = @ + 1]
                 ELSE [thr EXCEPT ![<<p, force>>] = @ - 1]
  /\ UNCHANGED <<base_url, support_recreate_session, lock, held, keys, certs, task>>

\* the threads a call leaves behind when it ends
Leave(b, p, force) == IF IsAlive(p) THEN [b EXCEPT ![<<p, force>>] = @ + 1] ELSE b
Abandon(t) == Leave(Leave(thr, task[t].th1, FALSE), task[t].th2, TRUE)

\* --------------------------------------------------- the key operations
DevErr == "GeneralError"

\* _get_pub_key, lines 167-172
get_pub_key(k, label, kt) == get_key(k, KEY_TYPE_VALUES(kt), "PUBLIC_KEY", label)

\* asn1crypto's PublicKeyInfo of a public key object: the algorithm and the
\* encoded public key, which is of one key type and one key material
PublicKeyInfo(o) == [algorithm |-> o.kt, public_key |-> [kt |-> o.kt, mat |-> o.mat]]

\* a digest taken of the whole PublicKeyInfo
sha1_OfInfo(pki) == [sha1_of |-> pki]

\* pki.sha1: the SHA-1 of the encoded public key inside the PublicKeyInfo
sha1(pki) == [sha1_of |-> pki.public_key]

\* _public_key_data, lines 174-192: the PEM of the key's PublicKeyInfo and its sha1
public_key_data_of(o) == [pem |-> PublicKeyInfo(o), ski |-> sha1(PublicKeyInfo(o))]

\* key material the device does not hold yet under this key type
FreshMats(k, kt) ==
  {m \in Mats : \A o \in KeyObjs : (o.kt = kt /\ o.mat = m) => k[o] = 0}
FreshMat(k, kt) == CHOOSE m \in FreshMats(k, kt) : \A n \in FreshMats(k, kt) : m <= n

\* session.generate_keypair / parameters.generate_keypair(store=True, label=...)
generate_keypair(k, label, kt) ==
  LET m == FreshMat(k, kt)
  IN AddKey(AddKey(k, KeyObj("PUBLIC_KEY", kt, label, m)), KeyObj("PRIVATE_KEY", kt, label, m))

Out(k, r) == [keys |-> k, res |-> r]

\* a duplicate test that never finds a key
Duplicate_Never(k, label, kt) == FALSE

\* a duplicate test that looks for a private key
Duplicate_Private(k, label, kt) ==
  get_key(k, KEY_TYPE_VALUES(kt), "PRIVATE_KEY", label).err # "NoSuchKey"

\* the duplicate test of lines 536-539 and 461-465: a public key found, or
\* several found, raises MultipleObjectsReturned; only NoSuchKey goes on
Duplicate(k, label, kt) == get_pub_key(k, label, kt).err # "NoSuchKey"

\* create_keypair, lines 531-571
create_keypair(k, label, kt) ==
  IF Duplicate(k, label, kt)
  THEN {Out(k, Err("MultipleObjectsReturned")), Out(k, Err(DevErr))}
  ELSE {Out(k, Err(DevErr))}
       \cup (IF NumKeys(k) + 2 <= MaxKeys /\ FreshMats(k, kt) # {}
             THEN {Out(generate_keypair(k, label, kt),
                       Ok(public_key_data_of(KeyObj("PUBLIC_KEY", kt, label, FreshMat(k, kt)))))}
             ELSE {})

\* import_keypair, lines 457-485: the public object is created first, then
\* the private one; a device error between the two leaves the public one
import_keypair(k, pubmat, privmat, label, kt) ==
  IF Duplicate(k, label, kt)
  THEN {Out(k, Err("MultipleObjectsReturned")), Out(k, Err(DevErr))}
  ELSE LET k1 == AddKey(k, KeyObj("PUBLIC_KEY", kt, label, pubmat))
           k2 == AddKey(k1, KeyObj("PRIVATE_KEY", kt, label, privmat))
       IN {Out(k, Err(DevErr))}
          \cup (IF NumKeys(k) + 1 <= MaxKeys THEN {Out(k1, Err(DevErr))} ELSE {})
          \cup (IF NumKeys(k) + 2 <= MaxKeys THEN {Out(k2, Ok("None"))} ELSE {})

\* session.get_key(...).destroy(): the outcomes as <<keys after, error>>
get_and_destroy(k, devtype, cls, label) ==
  LET g == get_key(k, devtype, cls, label)
  IN IF g.err # "" THEN {<<k, g.err>>, <<k, DevErr>>}
     ELSE {<<DelKey(k, g.obj), "">>, <<k, DevErr>>}

\* delete_keypair, lines 873-888: try the public key, finally the private
\* key; an error of the finally part replaces the error of the try part
delete_keypair(k, label, kt) ==
  UNION {
    { Out(q[1], IF q[2] # "" THEN Err(q[2])
               ELSE IF p[2] # "" THEN Err(p[2]) ELSE Ok("None"))
      : q \in get_and_destroy(p[1], KEY_TYPE_VALUES(kt), "PRIVATE_KEY", label) }
    : p \in get_and_destroy(k, KEY_TYPE_VALUES(kt), "PUBLIC_KEY", label) }

\* public_key_data, lines 934-939
public_key_data(k, label, kt) ==
  LET g == get_pub_key(k, label, kt)
  IN {Out(k, Err(DevErr)),
      Out(k, IF g.err # "" THEN Err(g.err) ELSE Ok(public_key_data_of(g.obj)))}

\* ------------------------------------------------------ sign and verify
\* what the device signs: the message, or its digest under a named hash
Hashed(h, data) == [h |-> h, of |-> data]

\* sign, lines 726-747: the mechanism and the pre-hash by key type
sign_mech(kt) ==
  IF kt \in EdTypes THEN "EDDSA"
  ELSE IF kt \in ECTypes THEN "ECDSA"
  ELSE IF kt = "rsa_2048" THEN "SHA256_RSA_PKCS"
  ELSE "SHA512_RSA_PKCS"

\* a digest selection that takes SHA-256 for every curve
sign_hash_Sha256(kt) == IF kt \in ECTypes THEN "sha256" ELSE "none"

sign_hash(kt) ==
  IF kt \in ECTypes
  THEN (IF kt = "secp256r1" THEN "sha256" ELSE IF kt = "secp384r1" THEN "sha384" ELSE "sha512")
  ELSE "none"

\* verify, lines 808-835: the same selection, written a second time
verify_mech(kt) ==
  IF kt \in EdTypes THEN "EDDSA"
  ELSE IF kt \in ECTypes THEN "ECDSA"
  ELSE IF kt = "rsa_2048" THEN "SHA256_RSA_PKCS"
  ELSE "SHA512_RSA_PKCS"

\* a digest selection that takes SHA-256 for every curve
verify_hash_Sha256(kt) == IF kt \in ECTypes THEN "sha256" ELSE "none"

verify_hash(kt) ==
  IF kt \in ECTypes
  THEN (IF kt = "secp256r1" THEN "sha256" ELSE IF kt = "secp384r1" THEN "sha384" ELSE "sha512")
  ELSE "none"

Nonces(mech) == IF mech = "ECDSA" THEN 1..MaxNonce ELSE {0}
NativeFmt(mech) == IF mech = "ECDSA" THEN "rs" ELSE "raw"

\* key_priv.sign(data, mechanism=...): a signature value names the key that
\* made it, the mechanism, what was signed and, for ECDSA, the nonce drawn
DeviceSign(o, d, mech, n) ==
  [n |-> n, mech |-> mech, d |-> d, key |-> [kt |-> o.kt, mat |-> o.mat],
   fmt |-> NativeFmt(mech)]

\* key_pub.verify(data, signature, mechanism=...): true for a signature in
\* the device's own format made over this data with this mechanism by the
\* private key of this public key, false for anything else
DeviceVerify(o, d, sig, mech) ==
  /\ sig.fmt = NativeFmt(mech)
  /\ sig.key = [kt |-> o.kt, mat |-> o.mat]
  /\ sig.mech = mech
  /\ sig.d = d

\* bytes per signature component, by curve
CurveSize(kt) ==
  IF kt = "secp256r1" THEN 32 ELSE IF kt = "secp384r1" THEN 48 ELSE 66

\* crypto.convert_rs_ec_signature: fixed-width R||S of this curve to DER
convert_rs_ec_signature(sig, kt) ==
  IF sig.fmt = "rs" /\ CurveSize(sig.key.kt) = CurveSize(kt)
  THEN [sig EXCEPT !.fmt = "asn1"]
  ELSE [sig EXCEPT !.fmt = "bad"]

\* crypto.convert_asn1_ec_signature: DER to fixed-width R||S of this curve;
\* input that is not such a DER value raises IndexError or ValueError
asn1_convertible(sig, kt) == sig.fmt = "asn1" /\ CurveSize(sig.key.kt) = CurveSize(kt)
convert_asn1_ec_signature(sig, kt) == [sig EXCEPT !.fmt = "rs"]

\* a _sign that hands the signature back without looking at it
_sign_Unverified(k, label, d, verify_signature, mech, kt) ==
  LET priv == get_key(k, KEY_TYPE_VALUES(kt), "PRIVATE_KEY", label)
  IN {Err(DevErr)} \cup
     (IF priv.err # "" THEN {Err(priv.err)}
      ELSE {Ok(DeviceSign(priv.obj, d, mech, n)) : n \in Nonces(mech)})

\* _sign, lines 647-670, inside the lock
_sign(k, label, d, verify_signature, mech, kt) ==
  LET priv == get_key(k, KEY_TYPE_VALUES(kt), "PRIVATE_KEY", label)
      pub == get_pub_key(k, label, kt)
  IN {Err(DevErr)} \cup
     (IF priv.err # "" THEN {Err(priv.err)}
      ELSE IF verify_signature /\ pub.err # "" THEN {Err(pub.err)}
      ELSE { IF verify_signature /\ ~DeviceVerify(pub.obj, d, DeviceSign(priv.obj, d, mech, n), mech)
             THEN Err("SignatureInvalid")
             ELSE Ok(DeviceSign(priv.obj, d, mech, n))
             : n \in Nonces(mech) })

\* sign, lines 726-755: select, pre-hash, sign in the lock, convert for EC
sign(k, label, data, verify_signature, kt) ==
  LET d == IF kt \in ECTypes THEN Hashed(sign_hash(kt), data) ELSE Hashed("none", data)
  IN { Out(k, IF r.kind = "ok" /\ kt \in ECTypes
                THEN Ok(convert_rs_ec_signature(r.val, kt)) ELSE r)
       : r \in _sign(k, label, d, verify_signature, sign_mech(kt), kt) }

\* verify, lines 801-839
verify(k, label, data, signature, kt) ==
  LET pub == get_pub_key(k, label, kt)
      d == IF kt \in ECTypes THEN Hashed(verify_hash(kt), data) ELSE Hashed("none", data)
      sig == IF kt \in ECTypes /\ asn1_convertible(signature, kt)
             THEN convert_asn1_ec_signature(signature, kt) ELSE signature
  IN {Out(k, Err(DevErr)),
      Out(k, IF pub.err # "" THEN Err(pub.err)
             ELSE Ok(DeviceVerify(pub.obj, d, sig, verify_mech(kt))))}

\* ---------------------------------------------------------- key_labels
SentinelLabel == "test_pkcs11_device_do_not_use"
HasPub(k, label, kt) ==
  \E o \in KeyObjs : o.cls = "PUBLIC_KEY" /\ o.label = label /\ o.kt = kt /\ k[o] > 0

\* the loops of lines 599-639 in their order: a later loop overwrites the
\* entry of an earlier one; within the RSA loop the device's order decides
LoopOrder == <<"ed25519", "ed448", "secp256r1", "secp384r1", "secp521r1">>
LastLoop(k, label) ==
  LET I == {i \in 1..Len(LoopOrder) : HasPub(k, label, LoopOrder[i])}
  IN IF I = {} THEN 0 ELSE CHOOSE i \in I : \A j \in I : j <= i
\* RSA keys named without the test of key_length
RsaNames_NoLength(k, sent, label) ==
  IF (\E kt \in RSATypes : HasPub(k, label, kt)) \/ (label = SentinelLabel /\ sent > 0)
  THEN {"rsa_2048"} ELSE {}
RsaNames(k, sent, label) ==
  {kt \in RSATypes : HasPub(k, label, kt)}
  \cup (IF label = SentinelLabel /\ sent > 0 THEN {"rsa_512"} ELSE {})
LabelNames(k, sent, label) ==
  IF LastLoop(k, label) # 0 THEN {LoopOrder[LastLoop(k, label)]} ELSE RsaNames(k, sent, label)

\* key_labels, lines 593-641
key_labels(k, sent) ==
  LET Present == {l \in Labels \cup {SentinelLabel} : LabelNames(k, sent, l) # {}}
  IN {Out(k, Err(DevErr))}
     \cup {Out(k, Ok(f)) : f \in {g \in [Present -> KEYTYPES \cup {"rsa_512"}] :
                                    \A l \in Present : g[l] \in LabelNames(k, sent, l)}}

\* ------------------------------------------------------- certificates
COut(c, r) == [certs |-> c, res |-> r]

import_certificate_Unchecked(c, cert_pem, label) ==
  {COut([c EXCEPT ![label] = Append(@, cert_pem.der)], Ok("None")), COut(c, Err(DevErr))}

\* import_certificate, lines 299-318: unarmor a PEM, store the DER value
import_certificate(c, cert_pem, label) ==
  IF Len(c[label]) > 0
  THEN {COut(c, Err("ValueError")), COut(c, Err(DevErr))}
  ELSE {COut([c EXCEPT ![label] = Append(@, cert_pem.der)], Ok("None")), COut(c, Err(DevErr))}

export_certificate_Last(c, label) ==
  {COut(c, Err(DevErr)),
   COut(c, IF Len(c[label]) > 0
           THEN Ok([der |-> 3 - Head(c[label]), armor |-> "CERTIFICATE"])
           ELSE Err("ValueError"))}

\* export_certificate, lines 353-372: the first object found, armored anew
export_certificate(c, label) ==
  {COut(c, Err(DevErr)),
   COut(c, IF Len(c[label]) > 0
           THEN Ok([der |-> Head(c[label]), armor |-> "CERTIFICATE"])
           ELSE Err("ValueError"))}

\* delete_certificate, lines 401-411: every object found is destroyed; a
\* device error stops the loop where it is
delete_certificate(c, label) ==
  {COut([c EXCEPT ![label] = <<>>], Ok("None"))}
  \cup {COut([c EXCEPT ![label] = SubSeq(@, j + 1, Len(@))], Err(DevErr))
        : j \in 0..(Len(c[label]) - 1)}
  \cup {COut(c, Err(DevErr))}

MainKT == {"rsa_2048"}

\* ------------------------------------------------- ocsp.response
\* the status codes of OCSPResponseStatus; 4 is not used
ResponseStatuses_WithReserved == 0..6
ResponseStatuses == {0, 1, 2, 3, 5, 6}

\* the status codes callers pass
StatusInputs == (0..7) \cup {99}

\* certificate statuses of a SingleResponse: good, revoked with the reason
\* of its RevokedInfo, unknown
CertStatuses ==
  {[cert_status |-> "good", revocation_reason |-> "none"],
   [cert_status |-> "unknown", revocation_reason |-> "none"]}
  \cup [cert_status : {"revoked"}, revocation_reason : {"key_compromise", "cessation_of_operation"}]

\* extensions callers pass: a nonce of 32 or 33 bytes, extended_revoke
ResponseExtensions ==
  {[extn_id |-> "nonce", extn_value |-> 32], [extn_id |-> "nonce", extn_value |-> 33],
   [extn_id |-> "extended_revoke", extn_value |-> 0]}

SeqsUpTo(S, n) == UNION {[1..k -> S] : k \in 0..n}

\* the calls of response with a status code of STS and up to n single responses
ResponseOps(STS, n) ==
  {[kt |-> kt, label |-> l, name |-> "response", single_responses |-> sr,
    response_status |-> st, extra_extensions |-> ex]
     : l \in Labels, kt \in MainKT, sr \in SeqsUpTo(CertStatuses, n),
       st \in STS, ex \in SeqsUpTo(ResponseExtensions, MaxExtensions)}

\* an extension identifier occurs twice
HasDuplicate(ex) == \E i, j \in DOMAIN ex : i # j /\ ex[i].extn_id = ex[j].extn_id

NonceTooLong_Over33(ex) == \E i \in DOMAIN ex : ex[i].extn_id = "nonce" /\ ex[i].extn_value > 33

\* a nonce longer than 32 bytes
NonceTooLong(ex) == \E i \in DOMAIN ex : ex[i].extn_id = "nonce" /\ ex[i].extn_value > 32

\* the extension checks made for every status code
response_check_ExtensionsFirst(op) ==
  IF HasDuplicate(op.extra_extensions) THEN Err("DuplicateExtensionException")
  ELSE IF NonceTooLong(op.extra_extensions) THEN Err("ValueError")
  ELSE IF ~(op.response_status \in ResponseStatuses) THEN Err("ValueError")
  ELSE IF op.response_status # 0
    THEN Ok([response_status |-> op.response_status, response_bytes |-> "None"])
  ELSE NoRes

\* the extensions checked for the nonce alone
response_check_NonceOnly(op) ==
  IF ~(op.response_status \in ResponseStatuses) THEN Err("ValueError")
  ELSE IF op.response_status # 0
    THEN Ok([response_status |-> op.response_status, response_bytes |-> "None"])
  ELSE IF NonceTooLong(op.extra_extensions) THEN Err("ValueError")
  ELSE NoRes

\* what response settles before anything is signed: a status code that is
\* not defined is an error, a status code other than 0 gives the response
\* without response_bytes, and for status 0 the extensions are checked;
\* NoRes when the response data is to be signed
response_check(op) ==
  IF ~(op.response_status \in ResponseStatuses) THEN Err("ValueError")
  ELSE IF op.response_status # 0
    THEN Ok([response_status |-> op.response_status, response_bytes |-> "None"])
  ELSE IF HasDuplicate(op.extra_extensions) THEN Err("DuplicateExtensionException")
  ELSE IF NonceTooLong(op.extra_extensions) THEN Err("ValueError")
  ELSE NoRes

response_data_Reversed(op) ==
  [responses |-> [i \in DOMAIN op.single_responses |->
                    op.single_responses[Len(op.single_responses) + 1 - i]],
   response_extensions |-> op.extra_extensions]

\* the ResponseData that is signed
response_data(op) ==
  [responses |-> op.single_responses, response_extensions |-> op.extra_extensions]

\* the successful response around the signature the session returned
basic_response(op, signed) ==
  IF signed.kind = "ok"
  THEN Ok([response_status |-> 0,
           response_bytes |-> [signature |-> signed.val, tbs_response_data |-> response_data(op)]])
  ELSE signed

\* response run up to its call of sign
response(k, op) ==
  {Out(o.keys, basic_response(op, o.res)) : o \in sign(k, op.label, response_data(op), FALSE, op.kt)}

\* --------------------------------------------------- ocsp.request
\* the calls of request: (issuer name hash, issuer key hash, serial) triples,
\* a signing key label or None, a requestor name or None
RequestOps ==
  {[kt |-> kt, label |-> l, name |-> "request", request_certs_data |-> ts,
    key_label |-> kl, requestor_name |-> rn]
     : ts \in SeqsUpTo(1..MaxTriples, MaxTriples), kl \in {"None"} \cup Labels,
       rn \in {"None", "requestor"}, l \in Labels, kt \in MainKT}

tbs_request_Distinct(op) ==
  [requestor_name |-> op.requestor_name, version |-> "v1",
   request_list |-> [i \in DOMAIN op.request_certs_data |->
                       [req_cert |-> [hash_algorithm |-> "sha1",
                                      triple |-> IF \E j \in 1..(i - 1) : op.request_certs_data[j] = op.request_certs_data[i]
                                                 THEN 0 ELSE op.request_certs_data[i]]]]]

\* the TBSRequest: one Request with a SHA-1 CertId for each triple
tbs_request(op) ==
  [requestor_name |-> op.requestor_name, version |-> "v1",
   request_list |-> [i \in DOMAIN op.request_certs_data |->
                       [req_cert |-> [hash_algorithm |-> "sha1",
                                      triple |-> op.request_certs_data[i]]]]]

request_check_Unnamed(op) ==
  IF Len(op.request_certs_data) = 0 THEN Err("ValueError")
  ELSE IF op.key_label = "None"
    THEN Ok([tbs_request |-> tbs_request(op), optional_signature |-> [present |-> FALSE]])
  ELSE NoRes

\* what request settles before anything is signed: no triple is an error, a
\* key label without a requestor name is an error, without a key label the
\* request is returned unsigned; NoRes when the TBSRequest is to be signed
request_check(op) ==
  IF Len(op.request_certs_data) = 0 THEN Err("ValueError")
  ELSE IF op.key_label # "None" /\ op.requestor_name = "None" THEN Err("ValueError")
  ELSE IF op.key_label = "None"
    THEN Ok([tbs_request |-> tbs_request(op), optional_signature |-> [present |-> FALSE]])
  ELSE NoRes

\* request run up to its call of sign: the signature goes into optional_signature
request(k, op) ==
  {Out(o.keys, IF o.res.kind = "ok"
               THEN Ok([tbs_request |-> tbs_request(op),
                        optional_signature |-> [signature |-> o.res.val, present |-> TRUE]])
               ELSE o.res)
     : o \in sign(k, op.key_label, tbs_request(op), FALSE, op.kt)}

\* ------------------------------------------ ocsp.certificate_ocsp_data
\* certificates by what the function reads: issuer, serial, the key
\* identifiers of the Authority Key Identifier extensions, and for each
\* Authority Information Access extension whether it has an OCSP access
\* description
OcspCerts ==
  [issuer : 1..2, serial : 1..2, aki : SeqsUpTo({7}, MaxOccurs),
   aia : SeqsUpTo(BOOLEAN, MaxOccurs)]

\* the AIA extensions with an OCSP access description
OcspAia(cert) == {i \in DOMAIN cert.aia : cert.aia[i]}

certificate_ocsp_data_AtLeastOne(cert) ==
  IF Len(cert.aki) >= 1 /\ Cardinality(OcspAia(cert)) >= 1
  THEN Ok([serial |-> cert.serial, issuer_name_hash |-> [sha1_of |-> cert.issuer],
           issuer_key_hash |-> cert.aki[1], ocsp_url |-> "url"])
  ELSE Err("DuplicateExtensionException")

\* certificate_ocsp_data: exactly one of each extension, else the same
\* exception for none and for several
certificate_ocsp_data(cert) ==
  IF Len(cert.aki) = 1 /\ Cardinality(OcspAia(cert)) = 1
  THEN Ok([serial |-> cert.serial, issuer_name_hash |-> [sha1_of |-> cert.issuer],
           issuer_key_hash |-> cert.aki[1], ocsp_url |-> "url"])
  ELSE Err("DuplicateExtensionException")

\* ------------------------------------------------ root_ca, the CSR
\* the extension request attribute around one extension, lines 51-59 and 80-88
CRIAttribute(ext) == [type |-> "extension_request", values |-> <<<<ext>>>>]

AppendAttribute_Overwrite(tbs, cria) == [tbs EXCEPT !.attributes = <<cria>>]

\* lines 61-66 and 90-95: the first attribute starts the collection, a later
\* one is appended to it
AppendAttribute(tbs, cria) ==
  IF Len(tbs.attributes) = 0
  THEN [tbs EXCEPT !.attributes = <<cria>>]
  ELSE [tbs EXCEPT !.attributes = Append(@, cria)]

\* lines 41-67
_set_tbs_basic_constraints(tbs) ==
  AppendAttribute(tbs, CRIAttribute([extn_id |-> "basic_constraints", extn_value |-> [ca |-> TRUE],
                                     critical |-> TRUE]))

\* lines 70-96; KeyUsage(('100001100',)): the bits of the string, named by
\* their position
_set_tbs_key_usage(tbs) ==
  LET bits == <<1, 0, 0, 0, 0, 1, 1, 0, 0>>
      names == <<"digital_signature", "non_repudiation", "key_encipherment",
                 "data_encipherment", "key_agreement", "key_cert_sign", "crl_sign",
                 "encipher_only", "decipher_only">>
  IN AppendAttribute(tbs, CRIAttribute([extn_id |-> "key_usage",
                                        extn_value |-> {names[i] : i \in {j \in DOMAIN bits : bits[j] = 1}},
                                        critical |-> TRUE]))

\* lines 99-109, with the three setters of lines 21-38, on a
\* CertificationRequestInfo that has no field set
_create_tbs(subject_name, pk_info) ==
  LET tbs == [version |-> 0, attributes |-> <<>>,
              subject |-> [name |-> subject_name], subject_pk_info |-> pk_info]
  IN _set_tbs_key_usage(_set_tbs_basic_constraints(tbs))

\* ------------------------------------------- the body of an operation
KOuts(S) == {[keys |-> o.keys, certs |-> certs, res |-> o.res] : o \in S}
COuts(S) == {[keys |-> keys, certs |-> o.certs, res |-> o.res] : o \in S}

\* what the operation does between healthy_session and the release of the
\* lock; every one of them reads self.session first
Outcomes(op) ==
  IF session = 0 THEN KOuts({Out(keys, Err("AttributeError"))})
  ELSE CASE op.name = "get_session" -> KOuts({Out(keys, Ok(session))})
         [] op.name = "create_keypair" -> KOuts(create_keypair(keys, op.label, op.kt))
         [] op.name = "import_keypair" ->
              KOuts(import_keypair(keys, op.pubmat, op.privmat, op.label, op.kt))
         [] op.name = "delete_keypair" -> KOuts(delete_keypair(keys, op.label, op.kt))
         [] op.name = "public_key_data" -> KOuts(public_key_data(keys, op.label, op.kt))
         [] op.name = "key_labels" -> KOuts(key_labels(keys, sentinel))
         [] op.name = "sign" -> KOuts(sign(keys, op.label, op.data, op.vs, op.kt))
         [] op.name = "verify" -> KOuts(verify(keys, op.label, op.data, op.sig, op.kt))
         [] op.name = "response" -> KOuts(response(keys, op))
         [] op.name = "request" -> KOuts(request(keys, op))
         [] op.name = "import_certificate" -> COuts(import_certificate(certs, op.pem, op.label))
         [] op.name = "export_certificate" -> COuts(export_certificate(certs, op.label))
         [] op.name = "delete_certificate" -> COuts(delete_certificate(certs, op.label))

\* the operation runs in the lock and leaves through async_lock's finally;
\* the probe threads still running are left behind
RunBody(t) ==
  /\ \E o \in Outcomes(task[t].op) :
       /\ keys' = o.keys
       /\ certs' = o.certs
       /\ task' = [task EXCEPT ![t] = [IdleTask EXCEPT !.op = task[t].op, !.res = o.res]]
  /\ held' = Release(t)
  /\ thr' = Abandon(t)

\* PKCS11UnknownErrorException leaves through async_lock's finally as well
Raise(t, e) ==
  /\ task' = [task EXCEPT ![t] = [IdleTask EXCEPT !.op = task[t].op, !.res = Err(e)]]
  /\ held' = Release(t)
  /\ thr' = Abandon(t)
  /\ UNCHANGED <<keys, certs>>

\* ------------------------------------- healthy_session, lines 240-258
\* a test that looks at the flag alone and not at the thread
Unhealthy_FlagOnly(p) == session_status # 0

\* the condition of lines 250 and 257
Unhealthy(p) == IsAlive(p) \/ session_status # 0

\* what a join costs the caller: the whole timeout when the thread is still alive
Waited(p) == IF IsAlive(p) THEN TIMEOUT ELSE 0

\* the coroutine resumes in the lock; lines 243-247: without the flag
\* healthy_session returns at once and the operation runs, with it the first
\* probe thread is started
Enter(t) ==
  /\ task[t].pc = "locked"
  /\ IF ~support_recreate_session
       THEN RunBody(t)
       ELSE /\ Live + 2 <= MaxThreads
            /\ task' = [task EXCEPT ![t].pc = "join1", ![t].th1 = "start"]
            /\ UNCHANGED <<held, thr, keys, certs>>
  /\ UNCHANGED <<base_url, support_recreate_session, lock, session, session_status, sentinel>>

\* lines 248-254: thread.join(timeout=TIMEOUT) returns, because the thread
\* ended or because the timeout elapsed; healthy runs the operation, else the
\* second, forced probe thread is started
Join1(t) ==
  /\ task[t].pc = "join1"
  /\ IF Unhealthy(task[t].th1)
       THEN /\ task' = [task EXCEPT ![t].pc = "join2", ![t].th2 = "start",
                                    ![t].waited = @ + Waited(task[t].th1)]
            /\ UNCHANGED <<held, thr, keys, certs>>
       ELSE RunBody(t)
  /\ UNCHANGED <<base_url, support_recreate_session, lock, session, session_status, sentinel>>

\* lines 255-258: the second join; still unhealthy raises
Join2(t) ==
  /\ task[t].pc = "join2"
  /\ IF Unhealthy(task[t].th2)
       THEN Raise(t, "PKCS11UnknownErrorException")
       ELSE RunBody(t)
  /\ UNCHANGED <<base_url, support_recreate_session, lock, session, session_status, sentinel>>

\* ------------------------------------ PKCS11Session() called once more
\* __new__ hands out the one instance and __init__ runs on it again, lines
\* 90-165: a new Lock, a new session unless the device refuses, the sentinel
\* looked up and created when absent
Construct ==
  /\ lock < MaxLocks
  /\ lock' = lock + 1
  /\ \/ /\ session < 1 + MaxSessions
        /\ session' = session + 1
        /\ \/ sentinel' = sentinel
           \/ sentinel = 0 /\ sentinel' = 1
     \/ UNCHANGED <<session, sentinel>>
  /\ UNCHANGED <<base_url, support_recreate_session, held, session_status, keys, certs, task, thr>>

\* ------------------------------------------------------ the calls made
Certs == {1, 2}
Pems == [der : Certs, armor : {"CERTIFICATE", "TRUSTED CERTIFICATE"}]

GetSessionOps == {[name |-> "get_session"]}
KeyLabelsOps == {[name |-> "key_labels"]}
CreateOps(KTS) == {[kt |-> kt, label |-> l, name |-> "create_keypair"] : l \in Labels, kt \in KTS}
DeleteOps(KTS) == {[kt |-> kt, label |-> l, name |-> "delete_keypair"] : l \in Labels, kt \in KTS}
PubDataOps(KTS) == {[kt |-> kt, label |-> l, name |-> "public_key_data"] : l \in Labels, kt \in KTS}
ImportOps(KTS, MS) ==
  {[kt |-> kt, label |-> l, name |-> "import_keypair", pubmat |-> m, privmat |-> n]
     : l \in Labels, kt \in KTS, m \in MS, n \in MS}
SignOps(KTS, DS, VS) ==
  {[kt |-> kt, label |-> l, name |-> "sign", data |-> d, vs |-> v]
     : l \in Labels, kt \in KTS, d \in DS, v \in VS}
CertOps(PS) ==
  {[label |-> l, name |-> "import_certificate", pem |-> p] : l \in Labels, p \in PS}
  \cup {[label |-> l, name |-> n] : n \in {"export_certificate", "delete_certificate"}, l \in Labels}

\* signatures a caller may hand to verify after sign returned sig: sig itself,
\* sig in another encoding or damaged, the signature another key would have
\* made, one said to be of another mechanism or digest, and for ECDSA another
\* pair (r, s) that is valid where sig is
Variants(sig) ==
  {sig}
  \cup {[sig EXCEPT !.fmt = f] : f \in {"raw", "rs", "asn1", "bad"}}
  \cup {[sig EXCEPT !.key.mat = m] : m \in Mats}
  \cup {[sig EXCEPT !.d.h = h] : h \in {"none", "sha256", "sha384", "sha512"}}
  \cup {[sig EXCEPT !.mech = m] : m \in {"EDDSA", "ECDSA", "SHA256_RSA_PKCS", "SHA512_RSA_PKCS"}}
  \cup {[sig EXCEPT !.n = n] : n \in Nonces(sig.mech)}

\* verify is called with the result of the caller's last sign, or with a
\* variant of it, over the signed data or other data
CallVerify(t) ==
  /\ task[t].pc = "idle"
  /\ task[t].op.name = "sign"
  /\ task[t].res.kind = "ok"
  /\ \E d \in Datas, s \in Variants(task[t].res.val) :
       task' = [task EXCEPT ![t] =
                  [IdleTask EXCEPT !.pc = "wait", !.lk = lock,
                     !.op = [kt |-> task[t].op.kt, label |-> task[t].op.label, name |-> "verify",
                             data |-> d, sig |-> s,
                             sdata |-> task[t].op.data, ssig |-> task[t].res.val]]]
  /\ UNCHANGED <<base_url, support_recreate_session, lock, held, session, session_status,
                 sentinel, keys, certs, thr>>

\* public_key_data is called for the label and key type of the caller's last
\* create_keypair, which returned created
CallPublicKeyData(t) ==
  /\ task[t].pc = "idle"
  /\ task[t].op.name = "create_keypair"
  /\ task[t].res.kind = "ok"
  /\ task' = [task EXCEPT ![t] =
               [IdleTask EXCEPT !.pc = "wait", !.lk = lock,
                  !.op = [kt |-> task[t].op.kt, label |-> task[t].op.label,
                          name |-> "public_key_data", created |-> task[t].res.val]]]
  /\ UNCHANGED <<base_url, support_recreate_session, lock, held, session, session_status,
                 sentinel, keys, certs, thr>>

\* export_certificate is called for the label of the caller's last
\* import_certificate, which stored imported
CallExport(t) ==
  /\ task[t].pc = "idle"
  /\ task[t].op.name = "import_certificate"
  /\ task[t].res.kind = "ok"
  /\ task' = [task EXCEPT ![t] =
               [IdleTask EXCEPT !.pc = "wait", !.lk = lock,
                  !.op = [label |-> task[t].op.label, name |-> "export_certificate",
                          imported |-> task[t].op.pem]]]
  /\ UNCHANGED <<base_url, support_recreate_session, lock, held, session, session_status,
                 sentinel, keys, certs, thr>>

\* response is called: it ends at once unless the response data is to be
\* signed, and then goes on as a caller of sign
CallResponse(t, op) ==
  /\ task[t].pc = "idle"
  /\ base_url = "None"
  /\ task' = [task EXCEPT ![t] =
               IF response_check(op) # NoRes
               THEN [IdleTask EXCEPT !.op = op, !.res = response_check(op)]
               ELSE [IdleTask EXCEPT !.pc = "wait", !.op = op, !.lk = lock]]
  /\ UNCHANGED <<base_url, support_recreate_session, lock, held, session, session_status,
                 sentinel, keys, certs, thr>>

\* request is called: it ends at once unless the TBSRequest is to be signed,
\* and then goes on as a caller of sign
CallRequest(t, op) ==
  /\ task[t].pc = "idle"
  /\ base_url = "None"
  /\ task' = [task EXCEPT ![t] =
               IF request_check(op) # NoRes
               THEN [IdleTask EXCEPT !.op = op, !.res = request_check(op)]
               ELSE [IdleTask EXCEPT !.pc = "wait", !.op = op, !.lk = lock]]
  /\ UNCHANGED <<base_url, support_recreate_session, lock, held, session, session_status,
                 sentinel, keys, certs, thr>>

\* certificate_ocsp_data is called: it reads the certificate and nothing else
CallCertificateOcspData(t, cert) ==
  /\ task[t].pc = "idle"
  /\ task' = [task EXCEPT ![t] =
               [IdleTask EXCEPT !.op = [name |-> "certificate_ocsp_data", cert |-> cert],
                                !.res = certificate_ocsp_data(cert)]]
  /\ UNCHANGED <<base_url, support_recreate_session, lock, held, session, session_status,
                 sentinel, keys, certs, thr>>

\* _create_tbs is called: it builds the request info and touches nothing else
CallCreateTbs(t, subject_name, pk_info) ==
  /\ task[t].pc = "idle"
  /\ task' = [task EXCEPT ![t] =
               [IdleTask EXCEPT !.op = [name |-> "_create_tbs", subject_name |-> subject_name,
                                       pk_info |-> pk_info],
                                !.res = Ok(_create_tbs(subject_name, pk_info))]]
  /\ UNCHANGED <<base_url, support_recreate_session, lock, held, session, session_status,
                 sentinel, keys, certs, thr>>

\* ------------------------------------------ the remote endpoint, base_url
\* the requests that are posted when a base URL is set: every operation but
\* get_session begins with "if self.base_url is not None"
RemoteOps ==
  KeyLabelsOps \cup CreateOps(MainKT) \cup DeleteOps(MainKT) \cup PubDataOps(MainKT)
  \cup ImportOps(MainKT, {1}) \cup SignOps(MainKT, {1}, {FALSE}) \cup CertOps({[der |-> 1, armor |-> "CERTIFICATE"]})
  \cup {[kt |-> kt, label |-> l, name |-> "verify", data |-> 1, sig |-> "signature"]
          : l \in Labels, kt \in MainKT}

\* what the endpoint answers: an HTTP status and a JSON body that is the
\* result with fields of the expected types ("result"), the result with a
\* field of another type ("mistyped"), or the report of a domain error
\* {"status": "error", "detail": "NoSuchKey"} without result fields
Responses == [status : {200, 304, 404, 500}, body : {"result", "mistyped", "NoSuchKey"}]

\* response.raise_for_status() of aiohttp raises ClientResponseError when the
\* status is 400 or above
raise_for_status_ServerOnly(status) == status >= 500
raise_for_status(status) == status >= 400

\* the value made from the result fields of a body
FromBody(op) == Ok([endpoint |-> op.name])

\* the outcome of an operation given the response to its request: four
\* operations return after raise_for_status without using the body (lines
\* 297, 397, 454, 870), public_key_data alone looks for the report of a
\* domain error (lines 924-925), the others index the body by the result
\* field and test its type
Reply(op, resp) ==
  IF raise_for_status(resp.status) THEN Err("ClientResponseError")
  ELSE IF op.name \in {"import_certificate", "delete_certificate", "import_keypair", "delete_keypair"}
    THEN Ok("None")
  ELSE IF resp.body = "NoSuchKey"
    THEN IF op.name = "public_key_data" THEN Err("NoSuchKey") ELSE Err("KeyError")
  ELSE IF resp.body = "mistyped" THEN Err("ValueError")
  ELSE FromBody(op)

Send_Local(t, op) ==
  /\ task[t].pc = "idle"
  /\ task' = [task EXCEPT ![t] = [IdleTask EXCEPT !.pc = "wait", !.op = op, !.lk = lock]]
  /\ UNCHANGED <<base_url, support_recreate_session, lock, held, session, session_status,
                 sentinel, keys, certs, thr>>

\* the request is posted to base_url/<operation>
Send(t, op) ==
  /\ task[t].pc = "idle"
  /\ base_url # "None"
  /\ op.name # "get_session"
  /\ task' = [task EXCEPT ![t] = [IdleTask EXCEPT !.pc = "post", !.op = op]]
  /\ UNCHANGED <<base_url, support_recreate_session, lock, held, session, session_status,
                 sentinel, keys, certs, thr>>

\* the response arrives, or none within timeout=10
Receive(t) ==
  /\ task[t].pc = "post"
  /\ \/ \E resp \in Responses :
          task' = [task EXCEPT ![t] = [IdleTask EXCEPT !.op = task[t].op, !.resp = resp,
                                                      !.res = Reply(task[t].op, resp)]]
     \/ task' = [task EXCEPT ![t] = [IdleTask EXCEPT !.op = task[t].op, !.res = Err("TimeoutError")]]
  /\ UNCHANGED <<base_url, support_recreate_session, lock, held, session, session_status,
                 sentinel, keys, certs, thr>>

TaskStep(t) == Acquire(t) \/ Enter(t) \/ Join1(t) \/ Join2(t)

\* ---------------------------------------------------- specifications
MainOps == GetSessionOps \cup CreateOps(MainKT)

Next ==
  \/ \E t \in Tasks, op \in MainOps : Call(t, op)
  \/ \E t \in Tasks : TaskStep(t)
  \/ \E t \in Tasks, i \in {1, 2} : OwnStep(t, i)
  \/ \E p \in Running, f \in BOOLEAN : StaleStep(p, f)
  \/ Construct

Spec == Init /\ [][Next]_vars

\* the same program with the recreate-session flag set in the environment
InitRecreate == Init /\ support_recreate_session
SpecRecreate == InitRecreate /\ [][Next]_vars

\* one caller of get_session; both joins return, at the latest when their
\* timeout has run out (thread.join(timeout=TIMEOUT), lines 248 and 255)
NextLive ==
  \/ Call(1, [name |-> "get_session"])
  \/ TaskStep(1)
  \/ \E i \in {1, 2} : OwnStep(1, i)
  \/ \E p \in Running, f \in BOOLEAN : StaleStep(p, f)
  \/ Construct
SpecLive ==
  /\ InitRecreate
  /\ [][NextLive]_vars
  /\ WF_vars(Join1(1))
  /\ WF_vars(Join2(1))

\* key management by one caller without the recreate-session flag: three key
\* types, two of them of one device key type
KeysKT == {"rsa_2048", "rsa_4096", "ed25519"}
KeysOps == CreateOps(KeysKT) \cup ImportOps(KeysKT, Mats) \cup DeleteOps(KeysKT)
InitPlain == Init /\ ~support_recreate_session
NextKeys ==
  \/ \E op \in KeysOps : Call(1, op)
  \/ Acquire(1)
  \/ Enter(1)
SpecKeys == InitPlain /\ [][NextKeys]_vars

\* the same caller, who also lists the key labels
NextKeyLabels ==
  \/ \E op \in KeysOps \cup KeyLabelsOps : Call(1, op)
  \/ Acquire(1)
  \/ Enter(1)
SpecKeyLabels == InitPlain /\ [][NextKeyLabels]_vars

\* callers that may be cancelled while they wait for the lock
NextCancel ==
  \/ \E t \in Tasks, op \in MainOps : Call(t, op)
  \/ \E t \in Tasks : Acquire(t) \/ Enter(t)
  \/ \E t \in Tasks : Cancel(t)
  \/ \E t \in Tasks : LateAcquire(t)
SpecCancel == InitPlain /\ [][NextCancel]_vars

\* keys of all seven types created, signed with, and the signatures verified
SignOpsAll == CreateOps(KEYTYPES) \cup SignOps(KEYTYPES, Datas, BOOLEAN)
NextSign ==
  \/ \E op \in SignOpsAll : Call(1, op)
  \/ CallVerify(1)
  \/ Acquire(1)
  \/ Enter(1)
SpecSign == InitPlain /\ [][NextSign]_vars

\* keypairs imported, also with a private key that does not belong to the
\* public key, and signed with, with and without the verification
VerifyKT == {"rsa_2048", "secp256r1"}
VerifyOps == ImportOps(VerifyKT, Mats) \cup SignOps(VerifyKT, {1}, BOOLEAN)
NextVerifyAfter ==
  \/ \E op \in VerifyOps : Call(1, op)
  \/ Acquire(1)
  \/ Enter(1)
SpecVerifyAfter == InitPlain /\ [][NextVerifyAfter]_vars

\* keys of all seven types created and their public key data asked for
NextPublicKeyData ==
  \/ \E op \in CreateOps(KEYTYPES) : Call(1, op)
  \/ CallPublicKeyData(1)
  \/ Acquire(1)
  \/ Enter(1)
SpecPublicKeyData == InitPlain /\ [][NextPublicKeyData]_vars

\* certificates imported, exported and deleted by two callers while the
\* instance is constructed once more
NextCerts ==
  \/ \E t \in Tasks, op \in CertOps(Pems) : Call(t, op)
  \/ \E t \in Tasks : Acquire(t)
  \/ \E t \in Tasks : Enter(t)
  \/ Construct
SpecCerts == InitPlain /\ [][NextCerts]_vars

\* one caller of the certificate operations, who also exports what was
\* just imported
NextExportAfter ==
  \/ \E op \in CertOps(Pems) : Call(1, op)
  \/ CallExport(1)
  \/ Acquire(1)
  \/ Enter(1)
SpecExportAfter == InitPlain /\ [][NextExportAfter]_vars

\* OCSP responses built by one caller, with and without the responder key
NextResponse ==
  \/ \E op \in CreateOps(MainKT) : Call(1, op)
  \/ \E op \in ResponseOps(StatusInputs, MaxResponses) : CallResponse(1, op)
  \/ Acquire(1)
  \/ Enter(1)
SpecResponse == InitPlain /\ [][NextResponse]_vars

\* OCSP responses with status code 0 built by one caller
NextResponseOk ==
  \/ \E op \in CreateOps(MainKT) : Call(1, op)
  \/ \E op \in ResponseOps({0}, MaxSingleResponses) : CallResponse(1, op)
  \/ Acquire(1)
  \/ Enter(1)
SpecResponseOk == InitPlain /\ [][NextResponseOk]_vars

\* OCSP requests built by one caller, signed and unsigned
NextRequest ==
  \/ \E op \in CreateOps(MainKT) : Call(1, op)
  \/ \E op \in RequestOps : CallRequest(1, op)
  \/ Acquire(1)
  \/ Enter(1)
SpecRequest == InitPlain /\ [][NextRequest]_vars

\* certificates parsed for their OCSP data
NextOcspData == \E cert \in OcspCerts : CallCertificateOcspData(1, cert)
SpecOcspData == InitPlain /\ [][NextOcspData]_vars

\* request infos built for the root CA
NextCreateTbs ==
  \E sn \in [common_name : {"ca1", "ca2"}, country_name : {"SE", "NO"}],
     o \in {x \in KeyObjs : x.cls = "PUBLIC_KEY"} : CallCreateTbs(1, sn, PublicKeyInfo(o))
SpecCreateTbs == InitPlain /\ [][NextCreateTbs]_vars

\* a remote endpoint is configured and the recreate-session flag is not set;
\* two callers of every operation
InitRemote == Constructed("url") /\ ~support_recreate_session
NextRemote ==
  \/ \E t \in Tasks, op \in RemoteOps : Send(t, op)
  \/ \E t \in Tasks : Receive(t)
  \/ \E t \in Tasks : Call(t, [name |-> "get_session"])
  \/ \E t \in Tasks : Acquire(t)
  \/ \E t \in Tasks : Enter(t)
SpecRemote == InitRemote /\ [][NextRemote]_vars

\* ---------------------- the synchronous Session, python_x509_pkcs11/pkcs11_handle.py
\* LOCK is the one module-level lock (line 30): lock object 0.  Session.session
\* is None until the first reopen.  A device access returns, raises or does
\* not return.
KeySizes == {2048, 4096}
KeyOfSize(key_size) == IF key_size = 2048 THEN "rsa_2048" ELSE "rsa_4096"

\* _time_limit, lines 32-52: signal.signal and signal.alarm work in the main
\* thread alone, elsewhere signal.signal raises ValueError; in the main thread
\* a device access that does not return is ended by the alarm, taken here to
\* interrupt the access, with PKCS11TimeoutException
MainThread == 1
_time_limit(t) == IF t = MainThread THEN "PKCS11TimeoutException" ELSE "ValueError"

\* Session.sign, lines 112-120: both keys are looked up as RSA keys, the
\* private one signs with SHA256_RSA_PKCS
Session_sign(k, data, key_label) ==
  LET key_pub == get_key(k, "RSA", "PUBLIC_KEY", key_label)
      key_priv == get_key(k, "RSA", "PRIVATE_KEY", key_label)
  IN {Out(k, Err(DevErr))} \cup
     (IF key_pub.err # "" THEN {Out(k, Err(key_pub.err))}
      ELSE IF key_priv.err # "" THEN {Out(k, Err(key_priv.err))}
      ELSE {Out(k, Ok(DeviceSign(key_priv.obj, Hashed("none", data), "SHA256_RSA_PKCS", 0)))})

\* Session.create_keypair, lines 142-164: no look for a key of this label first
Session_create_keypair(k, key_size, key_label) ==
  LET kt == KeyOfSize(key_size)
  IN {Out(k, Err(DevErr))} \cup
     (IF NumKeys(k) + 2 <= MaxKeys /\ FreshMats(k, kt) # {}
      THEN {Out(generate_keypair(k, key_label, kt),
                Ok(public_key_data_of(KeyObj("PUBLIC_KEY", kt, key_label, FreshMat(k, kt)))))}
      ELSE {})

\* Session.key_identifier, lines 182-192
Session_key_identifier(k, key_label) ==
  LET key_pub == get_key(k, "RSA", "PUBLIC_KEY", key_label)
  IN {Out(k, Err(DevErr))} \cup
     (IF key_pub.err # "" THEN {Out(k, Err(key_pub.err))}
      ELSE {Out(k, Ok(sha1(PublicKeyInfo(key_pub.obj))))})

SessionOps ==
  {[label |-> l, name |-> "sign", data |-> d] : l \in Labels, d \in Datas}
  \cup {[label |-> l, name |-> "create_keypair", key_size |-> n] : l \in Labels, n \in KeySizes}
  \cup {[label |-> l, name |-> "key_identifier"] : l \in Labels}

SessionOutcomes(op) ==
  CASE op.name = "sign" -> Session_sign(keys, op.data, op.label)
    [] op.name = "create_keypair" -> Session_create_keypair(keys, op.key_size, op.label)
    [] op.name = "key_identifier" -> Session_key_identifier(keys, op.label)

\* "with LOCK:" (lines 99, 138, 179), then _healthy_session is entered
SessionCall(t, op) ==
  /\ task[t].pc = "idle"
  /\ LockFree(lock)
  /\ held' = [held EXCEPT ![lock] = t]
  /\ task' = [task EXCEPT ![t] = [IdleTask EXCEPT !.pc = "probe", !.op = op, !.lk = lock]]
  /\ UNCHANGED <<base_url, support_recreate_session, lock, session, session_status,
                 sentinel, keys, certs, thr>>

\* _healthy_session, lines 73-78: under _time_limit(2) the token label is
\* read and, if it is another token's, the session is closed and opened
\* again.  Whatever is raised there (ValueError off the main thread,
\* AttributeError on None, a device error, the timeout) is caught by the bare
\* except of line 79.
_healthy_session(t) ==
  /\ task[t].pc = "probe"
  /\ \/ /\ t = MainThread
        /\ session # 0
        /\ task' = [task EXCEPT ![t].pc = "body"]
        /\ UNCHANGED session
     \/ /\ t = MainThread
        /\ session # 0
        /\ session < 1 + MaxSessions
        /\ session' = session + 1
        /\ task' = [task EXCEPT ![t].pc = "body"]
     \/ /\ task' = [task EXCEPT ![t].pc = "reopen"]
        /\ UNCHANGED session
  /\ UNCHANGED <<base_url, support_recreate_session, lock, held, session_status,
                 sentinel, keys, certs, thr>>

\* _healthy_session, lines 79-82: the except branch loads the library, gets
\* the token and opens the session, with no _time_limit around it.  It
\* returns, or raises (the error leaves through "with LOCK"), or does not
\* return, and then nothing ends it.
Reopen(t) ==
  /\ task[t].pc = "reopen"
  /\ \/ /\ session < 1 + MaxSessions
        /\ session' = session + 1
        /\ task' = [task EXCEPT ![t].pc = "body"]
        /\ UNCHANGED held
     \/ /\ task' = [task EXCEPT ![t] = [IdleTask EXCEPT !.op = task[t].op, !.res = Err(DevErr)]]
        /\ held' = Release(t)
        /\ UNCHANGED session
     \/ /\ task' = [task EXCEPT ![t].pc = "hung"]
        /\ UNCHANGED <<held, session>>
  /\ UNCHANGED <<base_url, support_recreate_session, lock, session_status,
                 sentinel, keys, certs, thr>>

\* the body of sign, create_keypair and key_identifier under _time_limit(3)
\* (lines 105-120, 142-164, 182-192); every way out releases LOCK
SessionBody(t) ==
  /\ task[t].pc = "body"
  /\ \E o \in (IF t = MainThread
               THEN SessionOutcomes(task[t].op) \cup {Out(keys, Err(_time_limit(t)))}
               ELSE {Out(keys, Err(_time_limit(t)))}) :
       /\ keys' = o.keys
       /\ task' = [task EXCEPT ![t] = [IdleTask EXCEPT !.op = task[t].op, !.res = o.res]]
  /\ held' = Release(t)
  /\ UNCHANGED <<base_url, support_recreate_session, lock, session, session_status,
                 sentinel, certs, thr>>

\* the class as imported: no session yet
InitSession == InitPlain /\ session = 0
NextSession ==
  \/ \E t \in Tasks, op \in SessionOps : SessionCall(t, op)
  \/ \E t \in Tasks : _healthy_session(t)
  \/ \E t \in Tasks : Reopen(t)
  \/ \E t \in Tasks : SessionBody(t)
SpecSession == InitSession /\ [][NextSession]_vars

\* ------------------------------------------------ root_ca.create, lines 112-148
\* the key type of a call that names none (lib.DEFAULT_KEY_TYPE; the
\* docstring of line 896 gives its value)
DEFAULT_KEY_TYPE == "ed25519"

\* PKCS11Session().create_keypair_if_not_exists(key_label, key_size), line 130:
\* the public key info of the RSA key pair of this label, which is made with
\* this size when the device has none
create_keypair_if_not_exists(k, key_label, key_size) ==
  LET key_pub == get_key(k, "RSA", "PUBLIC_KEY", key_label)
      kt == KeyOfSize(key_size)
  IN {Out(k, Err(DevErr))} \cup
     (IF key_pub.err = "" THEN {Out(k, Ok(PublicKeyInfo(key_pub.obj)))}
      ELSE IF key_pub.err # "NoSuchKey" THEN {Out(k, Err(key_pub.err))}
      ELSE IF NumKeys(k) + 2 <= MaxKeys /\ FreshMats(k, kt) # {}
      THEN {Out(generate_keypair(k, key_label, kt),
                Ok(PublicKeyInfo(KeyObj("PUBLIC_KEY", kt, key_label, FreshMat(k, kt)))))}
      ELSE {})

\* lines 135-141: the request around the request info, the algorithm it
\* declares and the signature
CertificationRequest(tbs, signature) ==
  [signature |-> signature, signature_algorithm |-> [algorithm |-> "sha256_rsa"],
   certification_request_info |-> tbs]

\* create, lines 130-143: the key, the request info, the signature that
\* PKCS11Session().sign(key_label, tbs.dump()) makes, which names no key type
\* and asks for no verification, and the armor
create(k, key_label, key_size, subject_name) ==
  UNION { IF made.res.kind = "error" THEN {made}
          ELSE LET tbs == _create_tbs(subject_name, made.res.val)
               IN { Out(s.keys,
                        IF s.res.kind = "error" THEN s.res
                        ELSE Ok([der |-> CertificationRequest(tbs, s.res.val),
                                 armor |-> "CERTIFICATE REQUEST"]))
                    : s \in sign(made.keys, key_label, tbs, FALSE, DEFAULT_KEY_TYPE) }
          : made \in create_keypair_if_not_exists(k, key_label, key_size) }

SubjectNames == [common_name : {"ca1"}, country_name : {"SE", "NO"}]

\* create is called on an open session
CallCreate(t, key_label, key_size, subject_name) ==
  /\ task[t].pc = "idle"
  /\ session # 0
  /\ \E o \in create(keys, key_label, key_size, subject_name) :
       /\ keys' = o.keys
       /\ task' = [task EXCEPT ![t] =
                    [IdleTask EXCEPT !.op = [label |-> key_label, name |-> "create",
                                            subject_name |-> subject_name, key_size |-> key_size],
                                     !.res = o.res]]
  /\ UNCHANGED <<base_url, support_recreate_session, lock, held, session, session_status,
                 sentinel, certs, thr>>

\* root CAs are created for both key sizes on a device that may hold a key
\* pair of another type under the same label
RootKT == {"ed25519"}
NextRootCa ==
  \/ \E op \in CreateOps(RootKT) \cup DeleteOps(RSATypes) : Call(2, op)
  \/ Acquire(2) \/ Enter(2)
  \/ \E l \in Labels, n \in KeySizes, sn \in SubjectNames : CallCreate(1, l, n, sn)
SpecRootCa == InitPlain /\ [][NextRootCa]_vars

\* ------------------------------------------------------------ properties
\* the task has acquired a lock object and not released it yet
HoldsLock(t) == task[t].pc \in {"locked", "join1", "join2"} /\ held[task[t].lk] = t

\* the step ends the operation of task t
Ends(t) == task[t].pc \in {"locked", "join1", "join2"} /\ task'[t].pc = "idle"

\* the step ends the operation of task t after its body ran on an open session
Touches(t) ==
  /\ Ends(t)
  /\ session # 0
  /\ task'[t].res # Err("PKCS11UnknownErrorException")

\* a probe thread started by the call of task t has reported a healthy session
ProbedHealthy(t) == task[t].th1 = "ok" \/ task[t].th2 = "ok"

\* C1: at most one caller is inside its critical section (holds the lock it
\* acquired and has not left the operation) at any time.
C1_OneInCriticalSection == Cardinality({t \in Tasks : HoldsLock(t)}) <= 1

\* C2: get_session returns a session only if a probe thread started during
\* that same call reported the session healthy.
C2_SessionOnlyAfterOwnProbe ==
  [][\A t \in Tasks :
       (Ends(t) /\ task[t].op.name = "get_session" /\ task'[t].res.kind = "ok")
         => ProbedHealthy(t)]_vars

\* C3: whatever the recreate-session flag, an operation touches the device
\* only after a probe started in the same call, after the lock was acquired,
\* reported the session healthy.
C3_TouchOnlyAfterOwnProbe ==
  [][\A t \in Tasks : Touches(t) => (HoldsLock(t) /\ ProbedHealthy(t))]_vars

\* C4: whenever an operation ends, by a result, by a device error, by a
\* duplicate error or by the failing health check, the lock object it had
\* acquired is free right afterwards and the task holds no lock.
C4_LockFreeAfterEnd ==
  [][\A t \in Tasks :
       Ends(t) => (held'[task[t].lk] = 0 /\ \A l \in 0..MaxLocks : held'[l] # t)]_vars

\* C4 witness: an operation ended by the failing health check, and the other
\* caller acquired the same lock object afterwards.
C4_Witness ==
  /\ lock = 0
  /\ task[1].pc = "idle"
  /\ task[1].res = Err("PKCS11UnknownErrorException")
  /\ task[2].pc = "locked"
  /\ held[0] = 2

\* C5: a caller in the health check leaves it; a first probe that outlasts
\* its timeout is followed by the forced reopen and not by the operation; a
\* forced reopen that outlasts its timeout ends the operation with
\* PKCS11UnknownErrorException, after two timeouts of waiting at most.
C5_NoHang ==
  /\ [][\A t \in Tasks :
          /\ (task[t].pc = "join1" /\ IsAlive(task[t].th1) /\ task'[t].pc # "join1")
               => (task'[t].pc = "join2" /\ task'[t].waited = TIMEOUT)
          /\ (task[t].pc = "join2" /\ IsAlive(task[t].th2) /\ task'[t].pc # "join2")
               => /\ task'[t].res = Err("PKCS11UnknownErrorException")
                  /\ task[t].waited + Waited(task[t].th2) <= 2 * TIMEOUT]_vars
  /\ \A t \in Tasks : InHealth(t) ~> (task[t].pc = "idle")

\* C5 witness: both probe threads of the call were still running when the
\* call ended with the error.
C5_Witness ==
  /\ task[1].pc = "idle"
  /\ task[1].res = Err("PKCS11UnknownErrorException")
  /\ BagTotal(thr, Running \X {FALSE}) > 0
  /\ BagTotal(thr, Running \X {TRUE}) > 0

\* C6: the session handle and the health flag change only in a step of a
\* probe thread whose caller holds the lock.
C6_WrittenOnlyUnderLock ==
  [][(session' # session \/ session_status' # session_status)
       => \E t \in Tasks :
            /\ HoldsLock(t)
            /\ (task'[t].th1 # task[t].th1 \/ task'[t].th2 # task[t].th2)]_vars

\* the public and private keys held under a label and a key type
PubCount(label, kt) ==
  Total(keys, {o \in KeyObjs : o.cls = "PUBLIC_KEY" /\ o.label = label /\ o.kt = kt})
PairCount(label, kt) ==
  Cardinality({m \in Mats : /\ keys[KeyObj("PUBLIC_KEY", kt, label, m)] > 0
                            /\ keys[KeyObj("PRIVATE_KEY", kt, label, m)] > 0})

\* C7: create_keypair and import_keypair, called where a public key exists
\* under the label and key type, fail and leave every key as it was; the
\* error is MultipleObjectsReturned unless the device answers the lookup
\* itself with an error.
C7_DuplicateFails ==
  [][\A t \in Tasks :
       (/\ Ends(t)
        /\ task[t].op.name \in {"create_keypair", "import_keypair"}
        /\ PubCount(task[t].op.label, task[t].op.kt) > 0)
         => /\ keys' = keys
            /\ task'[t].res \in {Err("MultipleObjectsReturned"), Err(DevErr)}]_vars

\* C7 witness: import_keypair has failed with the duplicate error on a
\* label and key type that hold a key.
C7_Witness ==
  /\ task[1].pc = "idle"
  /\ task[1].op.name = "import_keypair"
  /\ task[1].res = Err("MultipleObjectsReturned")
  /\ PubCount(task[1].op.label, task[1].op.kt) > 0

\* the keys under a label are one keypair of one key type and nothing else
OnlyPair(label, kt) ==
  /\ PairCount(label, kt) = 1
  /\ \A o \in KeyObjs : (o.label = label /\ keys[o] > 0) => (o.kt = kt /\ keys[o] = 1)
  /\ NumKeys(keys) = 2

\* C8: for any two distinct key types T1 and T2, create_keypair(L, T2) called
\* while a keypair exists only under (L, T1) succeeds, the device answering,
\* and afterwards both keypairs exist.
C8_OtherTypeSucceeds ==
  [][\A t \in Tasks, T1 \in KEYTYPES :
       (/\ Ends(t)
        /\ task[t].op.name = "create_keypair"
        /\ task[t].op.kt # T1
        /\ OnlyPair(task[t].op.label, T1)
        /\ task'[t].res # Err(DevErr))
         => /\ task'[t].res.kind = "ok"
            /\ PairCount(task[t].op.label, T1)' = 1
            /\ PairCount(task[t].op.label, task[t].op.kt)' = 1]_vars

Verified(t) ==
  /\ Ends(t)
  /\ task[t].op.name = "verify"
  /\ task'[t].res.kind = "ok"
  /\ PubCount(task[t].op.label, task[t].op.kt) = 1

\* the signature is the produced one up to its encoding and, for ECDSA, up
\* to the pair (r, s)
SameSignature(sig, ssig, kt) ==
  /\ [sig EXCEPT !.n = ssig.n, !.fmt = ssig.fmt] = ssig
  /\ sig.fmt \in (IF kt \in ECTypes THEN {"asn1", "rs"} ELSE {ssig.fmt})

PubOf(t) == get_pub_key(keys, task[t].op.label, task[t].op.kt)
PrivOf(t) == get_key(keys, KEY_TYPE_VALUES(task[t].op.kt), "PRIVATE_KEY", task[t].op.label)

\* C11: a sign called with the verification returns a signature only if the
\* public key under the same label and key type, looked up in the same step
\* in the lock, verifies it; where the private key under the label does not
\* belong to that public key sign fails with SignatureInvalid (or with the
\* device's own error) and returns no signature.
C11_VerifiedInTheSameSection ==
  [][\A t \in Tasks :
       (Ends(t) /\ task[t].op.name = "sign" /\ task[t].op.vs)
         => /\ task'[t].res.kind = "ok"
                 => /\ PubOf(t).err = ""
                    /\ task'[t].res.val.key = [kt |-> PubOf(t).obj.kt, mat |-> PubOf(t).obj.mat]
                    /\ keys' = keys
            /\ (PubOf(t).err = "" /\ PrivOf(t).err = "" /\ PubOf(t).obj.mat # PrivOf(t).obj.mat)
                 => task'[t].res \in {Err("SignatureInvalid"), Err(DevErr)}]_vars

\* C11 witness: a sign with the verification has ended with SignatureInvalid.
C11_Witness ==
  /\ task[1].pc = "idle"
  /\ task[1].op.name = "sign"
  /\ task[1].op.vs
  /\ task[1].res = Err("SignatureInvalid")

\* C12: the signature sign returns was made with the mechanism and over the
\* digest that the key type asked for names: EDDSA over the data for ed25519
\* and ed448; ECDSA over the SHA-256, SHA-384, SHA-512 digest for secp256r1,
\* secp384r1, secp521r1; SHA256_RSA_PKCS for rsa_2048 and SHA512_RSA_PKCS
\* for rsa_4096, over the data; and verify selects as sign does.
C12_MechanismByKeyType ==
  [][\A t \in Tasks :
       (Ends(t) /\ task[t].op.name = "sign" /\ task'[t].res.kind = "ok")
         => LET kt == task[t].op.kt
                sig == task'[t].res.val
            IN /\ sig.d.of = task[t].op.data
               /\ kt \in {"ed25519", "ed448"} => (sig.mech = "EDDSA" /\ sig.d.h = "none")
               /\ kt = "secp256r1" => (sig.mech = "ECDSA" /\ sig.d.h = "sha256")
               /\ kt = "secp384r1" => (sig.mech = "ECDSA" /\ sig.d.h = "sha384")
               /\ kt = "secp521r1" => (sig.mech = "ECDSA" /\ sig.d.h = "sha512")
               /\ kt = "rsa_2048" => (sig.mech = "SHA256_RSA_PKCS" /\ sig.d.h = "none")
               /\ kt = "rsa_4096" => (sig.mech = "SHA512_RSA_PKCS" /\ sig.d.h = "none")
               /\ verify_mech(kt) = sig.mech
               /\ verify_hash(kt) = sig.d.h]_vars

\* C12 witness: sign has returned a signature for rsa_4096 made with a key
\* that was created as rsa_2048.
C12_Witness ==
  /\ task[1].pc = "idle"
  /\ task[1].op.name = "sign"
  /\ task[1].op.kt = "rsa_4096"
  /\ task[1].res.kind = "ok"
  /\ task[1].res.val.key.kt = "rsa_2048"

\* C13: public_key_data called after create_keypair for the same label and
\* key type returns the public key and the key identifier create_keypair
\* returned; the public key is of that key type and the identifier is the
\* SHA-1 of the encoded public key.
C13_SameKeyAndIdentifier ==
  [][\A t \in Tasks :
       (Ends(t) /\ task[t].op.name = "public_key_data" /\ task'[t].res.kind = "ok")
         => LET r == task'[t].res.val
            IN /\ r = task[t].op.created
               /\ r.pem.algorithm = task[t].op.kt
               /\ r.ski = [sha1_of |-> r.pem.public_key]]_vars

\* C13 witness: public_key_data has answered for an ed448 key while a key of
\* another type is held under the same label.
C13_Witness ==
  /\ task[1].pc = "idle"
  /\ task[1].op.name = "public_key_data"
  /\ task[1].op.kt = "ed448"
  /\ task[1].res.kind = "ok"
  /\ NumKeys(keys) = 4

\* the lock, the session and the device are as they were before the step
LocalUntouched == UNCHANGED <<lock, held, session, session_status, sentinel, keys, certs, thr>>

\* C14 as stated: with a base URL set, every step of every operation,
\* get_session among them, is the posting of a request or the arrival of its
\* response, and leaves the lock, the session and the device alone.
C14_AllOperationsRemote ==
  [][\A t \in Tasks :
       (base_url # "None" /\ task'[t] # task[t])
         => /\ task[t].pc \in {"idle", "post"}
            /\ task'[t].pc = (IF task[t].pc = "idle" THEN "post" ELSE "idle")
            /\ LocalUntouched]_vars

\* C14 amended: the same for every operation other than get_session, which
\* has no remote form.
C14_OperationsWithRemoteBranch ==
  [][\A t \in Tasks :
       (base_url # "None" /\ task'[t] # task[t] /\ task'[t].op.name # "get_session")
         => /\ task[t].pc \in {"idle", "post"}
            /\ task'[t].pc = (IF task[t].pc = "idle" THEN "post" ELSE "idle")
            /\ task[t].pc = "post" => task'[t].res # NoRes
            /\ LocalUntouched]_vars

\* C14 witness: sign has returned the endpoint's result while the instance
\* never opened a session and the other caller holds the lock in get_session.
C14_Witness ==
  /\ base_url # "None"
  /\ session = 0
  /\ task[1].pc = "idle"
  /\ task[1].op.name = "sign"
  /\ task[1].res = FromBody(task[1].op)
  /\ task[2].pc = "locked"

\* the operation of task t has ended with the response resp.status
Answered(t) == task[t].pc = "idle" /\ task[t].resp # NoResp

\* C15 as stated: every response whose status is not 2xx ends the operation
\* with the transport error, and no result is taken from the body.
C15_Non2xxIsTransportError ==
  \A t \in Tasks :
    (Answered(t) /\ ~(task[t].resp.status \in 200..299))
      => task[t].res = Err("ClientResponseError")

\* C15 amended: every response whose status is 400 or above ends the
\* operation with the transport error, whatever its body holds.
C15_ErrorStatusIsTransportError ==
  \A t \in Tasks :
    (Answered(t) /\ task[t].resp.status >= 400)
      => task[t].res = Err("ClientResponseError")

\* C15 witness: the endpoint answered a sign request with 404 and a body that
\* holds a well-formed result.
C15_Witness ==
  /\ Answered(1)
  /\ task[1].op.name = "sign"
  /\ task[1].resp = [status |-> 404, body |-> "result"]
  /\ task[1].res = Err("ClientResponseError")

\* the operations that refer to a key
KeyOpNames == {"create_keypair", "import_keypair", "delete_keypair", "public_key_data", "sign", "verify"}

\* C16: when the endpoint reports the domain error NoSuchKey in the body of
\* a 200 response to an operation that refers to a key, the operation ends
\* with NoSuchKey.
C16_DomainErrorSurfaced ==
  \A t \in Tasks :
    (Answered(t) /\ task[t].op.name \in KeyOpNames
       /\ task[t].resp = [status |-> 200, body |-> "NoSuchKey"])
      => task[t].res = Err("NoSuchKey")

\* C17: import_certificate under a label that holds a certificate ends with
\* an error and leaves the certificates as they were, and no label ever
\* holds more than one certificate.
C17_OneCertificatePerLabel ==
  /\ [](\A l \in Labels : Len(certs[l]) <= 1)
  /\ [][\A t \in Tasks :
          (/\ Ends(t)
           /\ task[t].op.name = "import_certificate"
           /\ Len(certs[task[t].op.label]) > 0)
            => /\ certs' = certs
               /\ task'[t].res \in {Err("ValueError"), Err(DevErr)}]_vars

\* C17 witness: import_certificate of another certificate has failed with
\* ValueError on a label that holds a certificate, while the other caller is
\* in its critical section as well.
C17_Witness ==
  /\ task[1].pc = "idle"
  /\ task[1].op.name = "import_certificate"
  /\ task[1].res = Err("ValueError")
  /\ certs[task[1].op.label] = <<3 - task[1].op.pem.der>>
  /\ task[2].pc = "locked"

\* C18: on an open session, export_certificate called after
\* import_certificate of a certificate under the same label returns that
\* certificate, armored as CERTIFICATE, unless the device answers with an
\* error; export_certificate on a label that holds no certificate fails,
\* with ValueError ("No such certificate") unless the device answers with an
\* error.
C18_ExportReturnsImported ==
  [][\A t \in Tasks :
       (Touches(t) /\ task[t].op.name = "export_certificate")
         => LET op == task[t].op
            IN /\ "imported" \in DOMAIN op
                   => task'[t].res \in {Ok([der |-> op.imported.der, armor |-> "CERTIFICATE"]),
                                         Err(DevErr)}
               /\ Len(certs[op.label]) = 0
                   => task'[t].res \in {Err("ValueError"), Err(DevErr)}]_vars

\* C18 witness: a certificate imported with another armor has been exported.
C18_Witness ==
  /\ task[1].pc = "idle"
  /\ task[1].op.name = "export_certificate"
  /\ "imported" \in DOMAIN task[1].op
  /\ task[1].op.imported.armor = "TRUSTED CERTIFICATE"
  /\ task[1].res.kind = "ok"

\* C18 witness of the other case: export_certificate has failed with
\* ValueError after delete_certificate emptied the label.
C18_WitnessNotFound ==
  /\ task[1].pc = "idle"
  /\ task[1].op.name = "export_certificate"
  /\ task[1].res = Err("ValueError")
  /\ certs[task[1].op.label] = <<>>

\* the call of response by task t has ended
Responded(t) == task[t].pc = "idle" /\ task[t].op.name = "response" /\ task[t].res # NoRes

\* C19: response called with status code 1, 2, 3, 5 or 6 returns a response
\* with that status and without response_bytes, whatever the single
\* responses and the extensions are.
C19_NoBodyUnlessSuccessful ==
  \A t \in Tasks :
    (Responded(t) /\ task[t].op.response_status \in {1, 2, 3, 5, 6})
      => task[t].res = Ok([response_status |-> task[t].op.response_status,
                           response_bytes |-> "None"])

\* C19 witness: response has returned for status 3 with a revoked single
\* response and an extension set that holds the nonce twice, one of them too
\* long.
C19_Witness ==
  /\ Responded(1)
  /\ task[1].op.response_status = 3
  /\ Len(task[1].op.single_responses) = 1
  /\ task[1].op.single_responses[1].cert_status = "revoked"
  /\ HasDuplicate(task[1].op.extra_extensions)
  /\ NonceTooLong(task[1].op.extra_extensions)
  /\ task[1].res.kind = "ok"

\* C20: response called with a status code outside {0, 1, 2, 3, 5, 6} ends
\* with ValueError and returns no response.
C20_UndefinedStatusFails ==
  \A t \in Tasks :
    (Responded(t) /\ ~(task[t].op.response_status \in {0, 1, 2, 3, 5, 6}))
      => task[t].res = Err("ValueError")

\* C20 witness: response has failed for the status code 4 with well-formed
\* single responses and extensions while the responder key exists.
C20_Witness ==
  /\ Responded(1)
  /\ task[1].op.response_status = 4
  /\ Len(task[1].op.single_responses) = 1
  /\ task[1].op.single_responses[1].cert_status = "good"
  /\ ~HasDuplicate(task[1].op.extra_extensions)
  /\ ~NonceTooLong(task[1].op.extra_extensions)
  /\ task[1].res = Err("ValueError")
  /\ PairCount(task[1].op.label, task[1].op.kt) = 1

\* C21: a response returned for status code 0 has a body whose responses
\* are the supplied single responses: as many, in the supplied order, each
\* with its certificate status and revocation reason.
C21_OneSingleResponsePerResult ==
  \A t \in Tasks :
    (Responded(t) /\ task[t].op.response_status = 0 /\ task[t].res.kind = "ok")
      => LET given == task[t].op.single_responses
             body == task[t].res.val.response_bytes
         IN /\ task[t].res.val.response_status = 0
            /\ Len(body.tbs_response_data.responses) = Len(given)
            /\ \A i \in DOMAIN given : body.tbs_response_data.responses[i] = given[i]

\* C21 witness: a response has been returned for a revoked certificate
\* followed by a good one.
C21_Witness ==
  /\ Responded(1)
  /\ task[1].res.kind = "ok"
  /\ Len(task[1].op.single_responses) = 2
  /\ task[1].op.single_responses[1] =
       [cert_status |-> "revoked", revocation_reason |-> "cessation_of_operation"]
  /\ task[1].op.single_responses[2].cert_status = "good"
  /\ task[1].res.val.response_bytes.tbs_response_data.responses = task[1].op.single_responses

\* the extension set ex names an identifier twice
Twice(ex) == \E i, j \in DOMAIN ex : i < j /\ ex[i].extn_id = ex[j].extn_id

LongNonce(ex) == \E i \in DOMAIN ex : ex[i].extn_id = "nonce" /\ ex[i].extn_value > 32

C23_WitnessTooLong ==
  /\ Responded(1)
  /\ task[1].op.response_status = 0
  /\ task[1].op.extra_extensions = <<[extn_id |-> "nonce", extn_value |-> 33]>>
  /\ task[1].res = Err("ValueError")
  /\ PairCount(task[1].op.label, task[1].op.kt) = 1

\* the call of request by task t has ended
Requested(t) == task[t].pc = "idle" /\ task[t].op.name = "request" /\ task[t].res # NoRes

\* C24: request given no triple fails with ValueError; a request that is
\* returned has one entry for each supplied triple, at the position of the
\* triple and for that triple, a triple given twice being there twice.
C24_OneEntryPerTriple ==
  \A t \in Tasks :
    Requested(t)
      => LET given == task[t].op.request_certs_data
         IN /\ Len(given) = 0 => task[t].res = Err("ValueError")
            /\ task[t].res.kind = "ok"
                 => LET list == task[t].res.val.tbs_request.request_list
                    IN /\ Len(given) > 0
                       /\ Len(list) = Len(given)
                       /\ \A i \in DOMAIN given : list[i].req_cert.triple = given[i]
            /\ (Len(given) > 0 /\ task[t].op.key_label = "None") => task[t].res.kind = "ok"

\* C24 witness: a request has been returned for the same triple given twice.
C24_Witness ==
  /\ Requested(1)
  /\ task[1].op.request_certs_data = <<1, 1>>
  /\ task[1].res.kind = "ok"
  /\ Len(task[1].res.val.tbs_request.request_list) = 2

\* C24 witness of the other case: request has failed on the empty list.
C24_WitnessEmpty ==
  /\ Requested(1)
  /\ task[1].op.request_certs_data = <<>>
  /\ task[1].res = Err("ValueError")

\* C25: request called with a key label and no requestor name ends with
\* ValueError in the step that called it, nothing being signed; a request
\* returned for a key label and a requestor name carries that name and a
\* signature made by the key under the label over its TBSRequest.
C25_SignedNeedsRequestor ==
  \A t \in Tasks :
    (Requested(t) /\ task[t].op.key_label # "None" /\ Len(task[t].op.request_certs_data) > 0)
      => /\ task[t].op.requestor_name = "None" => task[t].res = Err("ValueError")
         /\ task[t].res.kind = "ok"
              => LET r == task[t].res.val
                 IN /\ r.tbs_request.requestor_name = task[t].op.requestor_name
                    /\ r.tbs_request.requestor_name # "None"
                    /\ r.optional_signature.present
                    /\ r.optional_signature.signature.d.of = r.tbs_request
                    /\ r.optional_signature.signature.key.kt = task[t].op.kt

\* C25 witness: a signed request has been returned.
C25_Witness ==
  /\ Requested(1)
  /\ task[1].op.key_label # "None"
  /\ task[1].op.requestor_name = "requestor"
  /\ task[1].res.kind = "ok"
  /\ task[1].res.val.optional_signature.present

\* C25 witness of the other case: request with a key label and no requestor
\* name has failed while the key exists.
C25_WitnessUnnamed ==
  /\ Requested(1)
  /\ task[1].op.key_label # "None"
  /\ task[1].op.requestor_name = "None"
  /\ task[1].res = Err("ValueError")
  /\ PairCount(task[1].op.label, task[1].op.kt) = 1

\* C26: certificate_ocsp_data returns the data of the certificate exactly
\* when the certificate has one Authority Key Identifier extension and one
\* Authority Information Access extension with an OCSP access description,
\* and fails with DuplicateExtensionException in every other case.
C26_ExactlyOneOfEach ==
  \A t \in Tasks :
    (task[t].pc = "idle" /\ task[t].op.name = "certificate_ocsp_data")
      => LET cert == task[t].op.cert
             one == /\ Len(cert.aki) = 1
                    /\ Cardinality({i \in DOMAIN cert.aia : cert.aia[i]}) = 1
         IN /\ one <=> task[t].res.kind = "ok"
            /\ ~one => task[t].res = Err("DuplicateExtensionException")
            /\ one => /\ task[t].res.val.serial = cert.serial
                       /\ task[t].res.val.issuer_name_hash = [sha1_of |-> cert.issuer]
                       /\ task[t].res.val.issuer_key_hash = cert.aki[1]

\* C26 witness: certificate_ocsp_data has failed on a certificate with one
\* Authority Key Identifier and two Authority Information Access extensions
\* with OCSP.
C26_Witness ==
  /\ task[1].op.name = "certificate_ocsp_data"
  /\ Len(task[1].op.cert.aki) = 1
  /\ task[1].op.cert.aia = <<TRUE, TRUE>>
  /\ task[1].res = Err("DuplicateExtensionException")

\* C26 witness of the other case: certificate_ocsp_data has returned.
C26_WitnessOk ==
  /\ task[1].op.name = "certificate_ocsp_data"
  /\ task[1].op.cert.aia = <<FALSE, TRUE>>
  /\ task[1].res.kind = "ok"

\* C27: the request info _create_tbs returns has version 0, the subject and
\* the public key it was given, and two extension request attributes: the
\* first holds Basic Constraints, critical, with ca true, the second Key
\* Usage, critical, with digital_signature, key_cert_sign and crl_sign.
C27_TwoExtensionRequests ==
  \A t \in Tasks :
    (task[t].pc = "idle" /\ task[t].op.name = "_create_tbs")
      => LET tbs == task[t].res.val
         IN /\ tbs.version = 0
            /\ tbs.subject = [name |-> task[t].op.subject_name]
            /\ tbs.subject_pk_info = task[t].op.pk_info
            /\ Len(tbs.attributes) = 2
            /\ \A i \in 1..2 : /\ tbs.attributes[i].type = "extension_request"
                                /\ Len(tbs.attributes[i].values) = 1
                                /\ Len(tbs.attributes[i].values[1]) = 1
                                /\ tbs.attributes[i].values[1][1].critical
            /\ tbs.attributes[1].values[1][1].extn_id = "basic_constraints"
            /\ tbs.attributes[1].values[1][1].extn_value = [ca |-> TRUE]
            /\ tbs.attributes[2].values[1][1].extn_id = "key_usage"
            /\ tbs.attributes[2].values[1][1].extn_value =
                 {"digital_signature", "key_cert_sign", "crl_sign"}

\* C27 witness: a request info has been built for an RSA public key.
C27_Witness ==
  /\ task[1].pc = "idle"
  /\ task[1].op.name = "_create_tbs"
  /\ task[1].op.pk_info.algorithm = "rsa_4096"
  /\ Len(task[1].res.val.attributes) = 2

\* ------------------------------------------------------------ C28
\* C28 as stated: every device error raised while the session is opened
\* surfaces to the immediate caller, the failure to create the sentinel key
\* apart.  The constructor has no path that raises a device error (lines
\* 162-164 log it), so every construction returns normally; the statement then
\* asks that no construction returns with the session it was to open refused
\* by the device, that is, with the session handle left as it was.
C28_OpenErrorSurfaces ==
  [][lock' # lock => session' # session]_vars

\* ------------------------------------------------------------ C29
\* the labels of the public keys the device holds, the sentinel key included
PubLabels ==
  {l \in Labels : \E o \in KeyObjs : o.cls = "PUBLIC_KEY" /\ o.label = l /\ keys[o] > 0}
  \cup (IF sentinel > 0 THEN {SentinelLabel} ELSE {})
\* a public key with this label is stored under this key type
StoredUnder(l, kt) ==
  \/ \E o \in KeyObjs : o.cls = "PUBLIC_KEY" /\ o.label = l /\ o.kt = kt /\ keys[o] > 0
  \/ l = SentinelLabel /\ sentinel > 0 /\ kt = "rsa_512"
\* task t has key_labels return a mapping in this step
Listed(t) ==
  /\ Touches(t)
  /\ task'[t].op.name = "key_labels"
  /\ task'[t].res.kind = "ok"

\* C29: the mapping key_labels returns has an entry for the label of every
\* public key stored on the device, and the entry of a label is a key type
\* under which a public key with that label is stored.
C29_EveryLabelWithItsType ==
  [][\A t \in Tasks :
       Listed(t) =>
         /\ DOMAIN task'[t].res.val = PubLabels
         /\ \A l \in PubLabels : StoredUnder(l, task'[t].res.val[l])]_vars
\* a mapping was returned that names a caller's label next to the sentinel's,
\* while the label holds public keys of two key types
C29_Witness ==
  /\ task[1].op.name = "key_labels"
  /\ task[1].res.kind = "ok"
  /\ DOMAIN task[1].res.val = Labels \cup {SentinelLabel}
  /\ StoredUnder("L", "rsa_4096")
  /\ StoredUnder("L", "ed25519")
  /\ task[1].res.val["L"] = "ed25519"
\* a mapping was returned that names an RSA key of 4096 bits
C29_WitnessRsa ==
  /\ task[1].op.name = "key_labels"
  /\ task[1].res.kind = "ok"
  /\ "L" \in DOMAIN task[1].res.val
  /\ task[1].res.val["L"] = "rsa_4096"

\* ------------------------------------------------------------ C30
\* the step starts the first probe thread of the call of task t, the second
StartsFirst(t) == task'[t].pc = "join1" /\ task[t].pc # "join1"
StartsSecond(t) == task'[t].pc = "join2" /\ task[t].pc # "join2"
\* the probe thread in state p has failed, or is still running at its join
FailedOrTimedOut(p) == p = "fail" \/ p \in Running

\* the attempts of one call: the first thread is started once, when the call
\* enters the health check, and is not forced; the second is started at most
\* once, from the first join, and is forced; after the second join the call
\* ends, and it ends with the exception when the forced attempt failed or
\* timed out
TwoAttempts(t) ==
  /\ StartsFirst(t) => task[t].pc = "locked" /\ task'[t].th1 = "start" /\ task'[t].th2 = "none"
  /\ StartsSecond(t) => task[t].pc = "join1" /\ task'[t].th2 = "start"
  /\ task[t].pc \in {"join1", "join2"} => task'[t].th1 \notin {"start", "open"} \/ task'[t].th1 = task[t].th1
  /\ task[t].pc = "join2" => task'[t].pc \in {"join2", "idle"}
  /\ task[t].pc = "join2" /\ task'[t].pc = "join2" /\ task[t].th2 = "start" /\ task'[t].th2 # "start"
       => task'[t].th2 = "open"
  /\ task[t].pc = "join2" /\ task'[t].pc = "idle" /\ FailedOrTimedOut(task[t].th2)
       => task'[t].res = Err("PKCS11UnknownErrorException")

\* C30 as stated: at most two probe attempts within one operation, the
\* second one forced and started only if the first one failed or timed out;
\* the operation fails when the second fails or times out too.
C30_TwoAttempts ==
  [][\A t \in Tasks :
       /\ TwoAttempts(t)
       /\ StartsSecond(t) => FailedOrTimedOut(task[t].th1)]_vars

\* ------------------------------------------------------------ C31
\* the step is the normal return of healthy_session in the call of task t:
\* a join found the session healthy and the body of the operation ran
ReturnsHealthy(t) ==
  /\ task[t].pc \in {"join1", "join2"}
  /\ task'[t].pc = "idle"
  /\ task'[t].res # Err("PKCS11UnknownErrorException")

\* C31 as stated: with the recreate-session flag set, healthy_session returns
\* normally only if a probe thread started by that same call ended with the
\* session found healthy; the flag written by a thread that an earlier call
\* left behind does not count.
C31_HealthyOnlyByOwnProbe ==
  [][\A t \in Tasks : ReturnsHealthy(t) => ProbedHealthy(t)]_vars

\* ------------------------------------------------------------ C32
\* task t waits for the lock or holds it
InProgress(t) == task[t].pc \in {"wait", "locked", "join1", "join2"}

\* C32 as stated: while an operation holds or waits for the lock no new lock
\* object is put in place, so that every operation in progress has taken, or
\* waits for, the lock object that self.lock names.
C32_OneLockObject ==
  [][\A t \in Tasks :
       InProgress(t) => (lock' = lock /\ task[t].lk = lock)]_vars

\* ------------------------------------------------------------ C33
\* C33 as stated: the sentinel key is created only when it is absent, so the
\* device never holds more than one sentinel key.
C33_AtMostOneSentinel == sentinel <= 1

\* ------------------------------------------------------------ C34
\* a forced probe thread is about to reopen the session: the second thread of
\* a call whose first join found the session unhealthy, or such a thread left
\* behind by its call
ForcedReopening ==
  \/ \E t \in Tasks : task[t].pc = "join2" /\ task[t].th2 = "open"
  \/ thr[<<"open", TRUE>>] > 0

\* C34 as stated: a step of a probe thread that was not forced leaves the
\* session handle as it is, and the session handle is replaced only by the
\* forced reopen that follows a failed or timed-out probe.
C34_ReplacedOnlyAfterFailedProbe ==
  [][/\ \A t \in Tasks :
          (task[t].pc = "join1" /\ task'[t].th1 # task[t].th1) => session' = session
     /\ session' # session => ForcedReopening]_vars

\* ------------------------------------------------------------ C35
PrivCount(label, kt) ==
  Total(keys, {o \in KeyObjs : o.cls = "PRIVATE_KEY" /\ o.label = label /\ o.kt = kt})

\* C35 as stated: whatever import_keypair, create_keypair and delete_keypair
\* calls were made, those that failed part-way included, a public key exists
\* under a label and key type exactly when a private key does.
C35_PublicIffPrivate ==
  \A l \in Labels, kt \in KEYTYPES : (PubCount(l, kt) > 0) <=> (PrivCount(l, kt) > 0)

\* ------------------------------------------------------------ C36
\* the step ends a delete_keypair of task t
Deleted(t) == Ends(t) /\ task[t].op.name = "delete_keypair"

\* C36 as stated: a delete_keypair that ends with an error leaves every key
\* as it was; one that ends without error has removed one public and one
\* private key of its label and key type and no key of another key type.
C36_DeleteAllOrNothing ==
  [][\A t \in Tasks :
       Deleted(t) =>
         IF task'[t].res.kind = "error"
         THEN keys' = keys
         ELSE /\ PubCount(task[t].op.label, task[t].op.kt)' = PubCount(task[t].op.label, task[t].op.kt) - 1
              /\ PrivCount(task[t].op.label, task[t].op.kt)' = PrivCount(task[t].op.label, task[t].op.kt) - 1
              /\ \A o \in KeyObjs : o.kt # task[t].op.kt => keys'[o] = keys[o]]_vars

\* ------------------------------------------------------------ C37
\* C37 as stated: also when callers are cancelled while they wait for the
\* lock, a lock object that is held is held by an operation in progress,
\* which will release it; no lock stays taken for later operations.
C37_HeldOnlyByAnOperation ==
  \A l \in 0..MaxLocks : held[l] # 0 => HoldsLock(held[l])

\* ------------------------------------------------------------ C38
\* C38 as stated: in the synchronous variant every device access of an
\* operation, the reopen of the health check included, is ended by a time
\* limit, so no operation stays in a device access that does not return
\* while it holds the lock.
C38_EveryAccessTimeLimited ==
  \A t \in Tasks : task[t].pc # "hung"

\* ------------------------------------------------------------ C39
\* the mechanism that a declared signature algorithm stands for
DeclaredMech(algorithm) == IF algorithm = "sha256_rsa" THEN "SHA256_RSA_PKCS" ELSE "other"

\* create has returned a request
Created(t) == task[t].pc = "idle" /\ task[t].op.name = "create" /\ task[t].res.kind = "ok"

====
